---- MODULE Spec2Model ----
(***************************************************************************)
(* State-machine model of the story-maker canvas editor: the document      *)
(* model (images, texts, drawing canvases, layer order, selection sets),   *)
(* the canvas interaction handlers and the image-generation orchestrator   *)
(* (handleGenerateImage) of src/App.tsx, with the Canvas component of      *)
(* src/unnamed/part_002 and the service wrappers of geminiService.ts.      *)
(*                                                                         *)
(* React state is modelled as variables; a handler that runs synchronously *)
(* reads the state of the last render, which is the current state, and an  *)
(* async handler keeps the values its closure captured when it was called. *)
(***************************************************************************)
EXTENDS Integers, Sequences, FiniteSets, TLC

(***************************************************************************)
(* Bounds of the model.                                                    *)
(***************************************************************************)
MaxClock == 2
MaxObjects == 2
MaxPending == 1

MaxLayers == 3

MaxLen == 4

(***************************************************************************)
(* Generic helpers standing for Array.prototype.includes / filter / map.   *)
(***************************************************************************)
Includes(s, e) == \E i \in DOMAIN s : s[i] = e

Ids(objs) == [i \in DOMAIN objs |-> objs[i].id]

Last(s) == s[Len(s)]

Range(s) == {s[i] : i \in DOMAIN s}

Abs(n) == IF n < 0 THEN -n ELSE n

(***************************************************************************)
(* Program constants.                                                      *)
(***************************************************************************)
Tools == {"pan", "select", "text", "pen", "eraser"}

aspectRatios == {"1:1", "3:4", "4:3", "9:16", "16:9"}

RatioW(r) == CASE r = "1:1" -> 1 [] r = "3:4" -> 3 [] r = "4:3" -> 4 [] r = "9:16" -> 9 [] r = "16:9" -> 16

RatioH(r) == CASE r = "1:1" -> 1 [] r = "3:4" -> 4 [] r = "4:3" -> 3 [] r = "9:16" -> 16 [] r = "16:9" -> 9

BASE_DIMENSION == 1024

ClientWidth == 1000

ClientHeight == 800

(***************************************************************************)
(* Inputs of the model: the values the environment can supply.             *)
(***************************************************************************)
\* natural sizes of uploaded files and of images returned by the service
ImageSizes == {<<900, 1600>>, <<1024, 1024>>}

\* canvas-space points of pointer events on the canvas
ClickPoints == {<<-600, -1000>>}

MovePoints == {<<-500, -905>>, <<600, 1000>>}

\* pointer displacement of a node drag, in canvas units, and the largest
\* coordinate a drag may reach
DragDeltas == {<<450, 0>>}

MaxCoord == 0

Prompts == {"", " ", "add a hat"}

VARIABLES
  clock,                      \* Date.now()
  images, textObjects, drawingCanvases, layerOrder,
  selectedImageIds, selectedTextIds, selectedDrawingCanvasIds,
  activeTool, aspectRatio, transform, projectName,
  pendingLoads,               \* addImageToCanvas calls whose img.onload has not fired
  isPanning, isSelecting, selectionStart, selectionBox,   \* Canvas refs and marquee state
  isDraggingForDelete, isOverTrash,
  nodeAction,                 \* actionRef of the node being dragged and the handlers registered at pointer-down
  selectedVideoSourceImage,
  previousToolRef,
  apiKey, isApiKeyModalOpen, activeModel,
  isLoading, loadingMessage, errorMessage, detailedError, debugImages,
  runs,                       \* the handleGenerateImage calls in flight: closure, attempt and position of each
  calls,                      \* the service calls made since the last accepted submit, in order
  applied                     \* the last application of a pure function checked on its own: arguments and result

docVars == <<images, textObjects, drawingCanvases, layerOrder>>

selVars == <<selectedImageIds, selectedTextIds, selectedDrawingCanvasIds>>

canvasVars == <<isPanning, isSelecting, selectionStart, selectionBox>>

dragVars == <<isDraggingForDelete, isOverTrash, nodeAction>>

viewVars == <<aspectRatio, transform, projectName>>

statusVars == <<isLoading, loadingMessage, errorMessage, detailedError, debugImages>>

genVars == <<apiKey, isApiKeyModalOpen, activeModel, statusVars, runs, calls, applied>>

vars == <<clock, docVars, selVars, activeTool, viewVars, pendingLoads, canvasVars, dragVars,
          selectedVideoSourceImage, previousToolRef, genVars>>


(***************************************************************************)
(* The React state a synchronous handler works on, as one record: the      *)
(* functions below are the state updates of the handlers of App.tsx.       *)
(***************************************************************************)
Cur ==
  [images |-> images, textObjects |-> textObjects, drawingCanvases |-> drawingCanvases,
   layerOrder |-> layerOrder,
   selectedImageIds |-> selectedImageIds, selectedTextIds |-> selectedTextIds,
   selectedDrawingCanvasIds |-> selectedDrawingCanvasIds,
   activeTool |-> activeTool]

Commit(d) ==
  /\ images' = d.images
  /\ textObjects' = d.textObjects
  /\ drawingCanvases' = d.drawingCanvases
  /\ layerOrder' = d.layerOrder
  /\ selectedImageIds' = d.selectedImageIds
  /\ selectedTextIds' = d.selectedTextIds
  /\ selectedDrawingCanvasIds' = d.selectedDrawingCanvasIds
  /\ activeTool' = d.activeTool

TotalObjects == Len(images) + Len(textObjects) + Len(drawingCanvases)

\* ids are `${prefix}_${Date.now()}`
MkId(prefix, now) == <<prefix, now>>

MkImage(id, src, x, y, w, h, nw, nh, cls, prompt, tar, videoSrc) ==
  [id |-> id, src |-> src, x |-> x, y |-> y, width |-> w, height |-> h,
   naturalWidth |-> nw, naturalHeight |-> nh, classification |-> cls, name |-> "",
   prompt |-> prompt, targetAspectRatio |-> tar, maskSrc |-> "", videoSrc |-> videoSrc]

\* the canvas-centred default position of addImageToCanvas / addDrawingCanvas
DefaultX(t, w) == ((ClientWidth \div 2 - t.x) * 10) \div t.scale10 - w \div 2

DefaultY(t, h) == ((ClientHeight \div 2 - t.y) * 10) \div t.scale10 - h \div 2

\* Math.round of the positive quotient n / d
Round(n, d) == (2 * n + d) \div (2 * d)

\* handleMoveToFront without the test of the last element and without the filter
handleMoveToFrontAppends(prev, id) == Append(prev, id)

handleMoveToFront(prev, id) ==
  IF Len(prev) > 0 /\ prev[Len(prev)] = id
  THEN prev
  ELSE Append(SelectSeq(prev, LAMBDA item : item # id), id)

\* deleteImages that forgets to empty the image selection
deleteImagesKeepsSelection(d, ids) ==
  IF Len(ids) = 0 THEN d
  ELSE [d EXCEPT !.images = SelectSeq(@, LAMBDA img : ~Includes(ids, img.id)),
                 !.layerOrder = SelectSeq(@, LAMBDA id : ~Includes(ids, id))]

deleteImages(d, ids) ==
  IF Len(ids) = 0 THEN d
  ELSE [d EXCEPT !.images = SelectSeq(@, LAMBDA img : ~Includes(ids, img.id)),
                 !.layerOrder = SelectSeq(@, LAMBDA id : ~Includes(ids, id)),
                 !.selectedImageIds = <<>>]

deleteTextObjects(d, ids) ==
  IF Len(ids) = 0 THEN d
  ELSE [d EXCEPT !.textObjects = SelectSeq(@, LAMBDA txt : ~Includes(ids, txt.id)),
                 !.layerOrder = SelectSeq(@, LAMBDA id : ~Includes(ids, id)),
                 !.selectedTextIds = <<>>]

deleteDrawingCanvases(d, ids) ==
  IF Len(ids) = 0 THEN d
  ELSE [d EXCEPT !.drawingCanvases = SelectSeq(@, LAMBDA canvas : ~Includes(ids, canvas.id)),
                 !.layerOrder = SelectSeq(@, LAMBDA id : ~Includes(ids, id)),
                 !.selectedDrawingCanvasIds = <<>>]

\* the body of img.onload in addImageToCanvas
addImageToCanvas(d, newImage) ==
  [d EXCEPT !.images = Append(@, newImage),
            !.layerOrder = Append(@, newImage.id),
            !.selectedImageIds = <<newImage.id>>,
            !.selectedTextIds = <<>>,
            !.selectedDrawingCanvasIds = <<>>,
            !.activeTool = "select"]

addTextToCanvas(d, x, y, now) ==
  LET newText == [id |-> MkId("txt", now), x |-> x, y |-> y, width |-> 300, height |-> 60]
  IN [d EXCEPT !.textObjects = Append(@, newText),
               !.layerOrder = Append(@, newText.id),
               !.selectedTextIds = <<newText.id>>,
               !.selectedImageIds = <<>>,
               !.selectedDrawingCanvasIds = <<>>]

addDrawingCanvas(d, ar, t, now) ==
  LET w == RatioW(ar)
      h == RatioH(ar)
      canvasWidth == IF w >= h THEN Round(BASE_DIMENSION * w, h) ELSE BASE_DIMENSION
      canvasHeight == IF w >= h THEN BASE_DIMENSION ELSE Round(BASE_DIMENSION * h, w)
      newCanvas == [id |-> MkId("canvas", now),
                    x |-> DefaultX(t, canvasWidth), y |-> DefaultY(t, canvasHeight),
                    width |-> canvasWidth, height |-> canvasHeight, drawingSrc |-> ""]
  IN [d EXCEPT !.drawingCanvases = Append(@, newCanvas),
               !.layerOrder = Append(@, newCanvas.id),
               !.selectedDrawingCanvasIds = <<newCanvas.id>>,
               !.selectedImageIds = <<>>,
               !.selectedTextIds = <<>>,
               !.activeTool = "select"]

\* a background click that leaves the tool alone
onBackgroundClickKeepsTool(d, c) ==
  [d EXCEPT !.images = IF Len(c.selectedImageIds) > 0
                       THEN [i \in DOMAIN @ |->
                               IF Includes(c.selectedImageIds, @[i].id) /\ @[i].maskSrc # ""
                               THEN [@[i] EXCEPT !.maskSrc = ""] ELSE @[i]]
                       ELSE @,
            !.selectedImageIds = <<>>,
            !.selectedTextIds = <<>>,
            !.selectedDrawingCanvasIds = <<>>]

\* onBackgroundClick of App.tsx; c is the state of the render the closure captured
onBackgroundClick(d, c) ==
  [d EXCEPT !.images = IF Len(c.selectedImageIds) > 0
                       THEN [i \in DOMAIN @ |->
                               IF Includes(c.selectedImageIds, @[i].id) /\ @[i].maskSrc # ""
                               THEN [@[i] EXCEPT !.maskSrc = ""] ELSE @[i]]
                       ELSE @,
            !.selectedImageIds = <<>>,
            !.selectedTextIds = <<>>,
            !.selectedDrawingCanvasIds = <<>>,
            !.activeTool = IF c.activeTool \in {"text", "pen", "eraser"} THEN "pan" ELSE @]

\* a selection handler without the branch of the pan and text tools
handleNodeSelectAnyTool(d, c, id, type, shiftKey) ==
  LET d1 == [d EXCEPT !.layerOrder = handleMoveToFront(@, id)]
      d2 == IF c.activeTool \in {"text", "pen", "eraser"}
            THEN [d1 EXCEPT !.activeTool = "select"] ELSE d1
      isSelected == \/ Includes(c.selectedImageIds, id)
                    \/ Includes(c.selectedTextIds, id)
                    \/ Includes(c.selectedDrawingCanvasIds, id)
      Toggle(prev) == IF isSelected THEN SelectSeq(prev, LAMBDA i : i # id) ELSE Append(prev, id)
  IN IF shiftKey
     THEN [d2 EXCEPT !.selectedImageIds = IF type = "image" THEN Toggle(@) ELSE @,
                     !.selectedTextIds = IF type = "text" THEN Toggle(@) ELSE @,
                     !.selectedDrawingCanvasIds = IF type = "drawingCanvas" THEN Toggle(@) ELSE @]
     ELSE IF ~isSelected
          THEN [d2 EXCEPT !.selectedImageIds = IF type = "image" THEN <<id>> ELSE <<>>,
                          !.selectedTextIds = IF type = "text" THEN <<id>> ELSE <<>>,
                          !.selectedDrawingCanvasIds =
                             IF type = "drawingCanvas" THEN <<id>> ELSE <<>>]
          ELSE d2

\* handleNodeSelect of the Canvas component; c is the state of the captured render
handleNodeSelect(d, c, id, type, shiftKey) ==
  LET d1 == [d EXCEPT !.layerOrder = handleMoveToFront(@, id)]
      d2 == IF c.activeTool \in {"text", "pen", "eraser"}
            THEN [d1 EXCEPT !.activeTool = "select"] ELSE d1
      sole == [d2 EXCEPT !.selectedImageIds = IF type = "image" THEN <<id>> ELSE <<>>,
                         !.selectedTextIds = IF type = "text" THEN <<id>> ELSE <<>>,
                         !.selectedDrawingCanvasIds = IF type = "drawingCanvas" THEN <<id>> ELSE <<>>]
      isSelected == \/ Includes(c.selectedImageIds, id)
                    \/ Includes(c.selectedTextIds, id)
                    \/ Includes(c.selectedDrawingCanvasIds, id)
      Toggle(prev) == IF isSelected THEN SelectSeq(prev, LAMBDA i : i # id) ELSE Append(prev, id)
  IN IF c.activeTool # "select" /\ c.activeTool # "pen" /\ c.activeTool # "eraser"
     THEN sole
     ELSE IF shiftKey
          THEN [d2 EXCEPT !.selectedImageIds = IF type = "image" THEN Toggle(@) ELSE @,
                          !.selectedTextIds = IF type = "text" THEN Toggle(@) ELSE @,
                          !.selectedDrawingCanvasIds = IF type = "drawingCanvas" THEN Toggle(@) ELSE @]
          ELSE IF ~isSelected THEN sole ELSE d2

\* the overlap test of the marquee selection
isInside(obj, box) ==
  /\ obj.x < box.x + box.width
  /\ obj.x + obj.width > box.x
  /\ obj.y < box.y + box.height
  /\ obj.y + obj.height > box.y

\* a pointer position that lies on an object reaches that node, not the canvas background
Covers(obj, pt) ==
  /\ obj.x <= pt[1] /\ pt[1] <= obj.x + obj.width
  /\ obj.y <= pt[2] /\ pt[2] <= obj.y + obj.height

OnBackground(pt) ==
  /\ \A i \in DOMAIN images : ~Covers(images[i], pt)
  /\ \A i \in DOMAIN textObjects : ~Covers(textObjects[i], pt)
  /\ \A i \in DOMAIN drawingCanvases : ~Covers(drawingCanvases[i], pt)

NoBox == [set |-> FALSE, x |-> 0, y |-> 0, width |-> 0, height |-> 0]

NoAction == [type |-> "none"]

NotApplied == [fn |-> "none"]


(***************************************************************************)
(* Project files offered to loadProjectFromFile.                           *)
(***************************************************************************)
\* the objects of a saved project were made in an earlier session
FileImage == MkImage(MkId("img", -1), "upload", -450, -800, 900, 1600, 900, 1600, "original", "", "", "")

MountTransform == [x |-> ClientWidth \div 2, y |-> ClientHeight \div 2, scale10 |-> 2]

ValidFile ==
  [hasProjectJson |-> TRUE, parses |-> TRUE, hasImages |-> TRUE, hasDrawingCanvases |-> TRUE,
   images |-> <<FileImage>>, textObjects |-> <<>>, drawingCanvases |-> <<>>,
   hasLayerOrder |-> TRUE, layerOrder |-> <<FileImage.id>>,
   aspectRatio |-> "1:1", hasTransform |-> TRUE, transform |-> MountTransform,
   projectName |-> "saved"]

ProjectFiles ==
  { ValidFile,
    [ValidFile EXCEPT !.hasLayerOrder = FALSE, !.layerOrder = <<>>],
    [ValidFile EXCEPT !.hasProjectJson = FALSE],
    [ValidFile EXCEPT !.parses = FALSE],
    [ValidFile EXCEPT !.hasImages = FALSE, !.images = <<>>],
    [ValidFile EXCEPT !.hasDrawingCanvases = FALSE] }

FileObjects(f) == Len(f.images) + Len(f.textObjects) + Len(f.drawingCanvases)

\* a load that only fails for an archive without a readable project.json
LoadFailsWithoutJson(f) == ~f.hasProjectJson \/ ~f.parses

LoadFails(f) == ~f.hasProjectJson \/ ~f.parses \/ ~f.hasImages \/ ~f.hasDrawingCanvases


(***************************************************************************)
(* Document and interaction handlers.                                      *)
(***************************************************************************)
\* slots taken by objects that are still to arrive: pending onloads and the
\* result of a running generation
Reserved == Len(pendingLoads) + (IF isLoading THEN 1 ELSE 0)

HasRoom == TotalObjects + Reserved < MaxObjects /\ Len(layerOrder) + Reserved < MaxLayers

\* one pointer: while its button is held on the canvas or on a node it cannot
\* press anything else
PointerFree == ~isPanning /\ ~isSelecting /\ nodeAction.type = "none"

\* the clock advances between events
Tick ==
  /\ clock < MaxClock
  /\ clock' = clock + 1
  /\ UNCHANGED <<docVars, selVars, activeTool, viewVars, pendingLoads, canvasVars, dragVars,
                 selectedVideoSourceImage, previousToolRef, genVars>>

\* a call of addImageToCanvas: the image is decoded first, the object is made in img.onload
LoadRequest(src, size, cls, prompt, tar, t, hasOptions, ox, oy, ow, oh) ==
  [src |-> src, naturalWidth |-> size[1], naturalHeight |-> size[2], classification |-> cls,
   prompt |-> prompt, targetAspectRatio |-> tar, transform |-> t,
   hasOptions |-> hasOptions, x |-> ox, y |-> oy, width |-> ow, height |-> oh]

\* handleFileUpload (file picker, drop, paste): reader.onload calls addImageToCanvas
handleFileUpload ==
  /\ PointerFree
  /\ HasRoom /\ Len(pendingLoads) < MaxPending
  /\ \E size \in ImageSizes :
       pendingLoads' = Append(pendingLoads,
          LoadRequest("upload", size, "original", "", "", transform, FALSE, 0, 0, 0, 0))
  /\ UNCHANGED <<clock, docVars, selVars, activeTool, viewVars, canvasVars, dragVars,
                 selectedVideoSourceImage, previousToolRef, genVars>>

NewImageOf(r, now) ==
  LET w == IF r.hasOptions THEN r.width ELSE r.naturalWidth
      h == IF r.hasOptions THEN r.height ELSE r.naturalHeight
  IN MkImage(MkId("img", now), r.src,
             IF r.hasOptions THEN r.x ELSE DefaultX(r.transform, w),
             IF r.hasOptions THEN r.y ELSE DefaultY(r.transform, h),
             w, h, r.naturalWidth, r.naturalHeight, r.classification,
             r.prompt, r.targetAspectRatio, "")

\* img.onload of addImageToCanvas
ImageOnload ==
  \E i \in DOMAIN pendingLoads :
    /\ Commit(addImageToCanvas(Cur, NewImageOf(pendingLoads[i], clock)))
    /\ pendingLoads' = SubSeq(pendingLoads, 1, i - 1) \o SubSeq(pendingLoads, i + 1, Len(pendingLoads))
    /\ UNCHANGED <<clock, viewVars, canvasVars, dragVars, selectedVideoSourceImage,
                   previousToolRef, genVars>>

\* the "new drawing canvas" button of the sidebar
AddDrawingCanvas ==
  /\ PointerFree
  /\ HasRoom
  /\ Commit(addDrawingCanvas(Cur, aspectRatio, transform, clock))
  /\ UNCHANGED <<clock, viewVars, pendingLoads, canvasVars, dragVars, selectedVideoSourceImage,
                 previousToolRef, genVars>>

\* Canvas.handleMouseDown on the canvas background, with onBackgroundClick
CanvasMouseDown ==
  \E pt \in ClickPoints :
    /\ PointerFree
    /\ OnBackground(pt)
    /\ activeTool = "text" => HasRoom
    /\ isPanning' = IF activeTool = "pan" THEN TRUE ELSE isPanning
    /\ isSelecting' = IF activeTool = "select" THEN TRUE ELSE isSelecting
    /\ selectionStart' = IF activeTool = "select" THEN pt ELSE selectionStart
    /\ selectionBox' = IF activeTool = "select"
                       THEN [set |-> TRUE, x |-> pt[1], y |-> pt[2], width |-> 0, height |-> 0]
                       ELSE selectionBox
    /\ LET d1 == IF activeTool = "text"
                 THEN [addTextToCanvas(Cur, pt[1], pt[2], clock) EXCEPT !.activeTool = "select"]
                 ELSE Cur
       IN Commit(onBackgroundClick(d1, Cur))
    /\ UNCHANGED <<clock, viewVars, pendingLoads, dragVars, selectedVideoSourceImage,
                   previousToolRef, genVars>>

\* Canvas.handleMouseMove, marquee branch
CanvasMouseMoveSelect ==
  /\ ~(isPanning /\ activeTool = "pan")
  /\ isSelecting /\ activeTool = "select"
  /\ \E pt \in MovePoints :
       selectionBox' = [set |-> TRUE,
                        x |-> IF selectionStart[1] < pt[1] THEN selectionStart[1] ELSE pt[1],
                        y |-> IF selectionStart[2] < pt[2] THEN selectionStart[2] ELSE pt[2],
                        width |-> Abs(pt[1] - selectionStart[1]),
                        height |-> Abs(pt[2] - selectionStart[2])]
  /\ UNCHANGED <<clock, docVars, selVars, activeTool, viewVars, pendingLoads, isPanning, isSelecting,
                 selectionStart, dragVars, selectedVideoSourceImage, previousToolRef, genVars>>

\* Canvas.handleMouseUpOrLeave
CanvasMouseUpOrLeave ==
  /\ isPanning \/ isSelecting
  /\ isPanning' = FALSE
  /\ isSelecting' = FALSE
  /\ IF isSelecting
     THEN /\ selectionBox' = NoBox
          /\ IF selectionBox.set
             THEN /\ selectedImageIds' = Ids(SelectSeq(images, LAMBDA o : isInside(o, selectionBox)))
                  /\ selectedTextIds' = Ids(SelectSeq(textObjects, LAMBDA o : isInside(o, selectionBox)))
                  /\ selectedDrawingCanvasIds' = Ids(SelectSeq(drawingCanvases, LAMBDA o : isInside(o, selectionBox)))
             ELSE UNCHANGED selVars
     ELSE UNCHANGED <<selectionBox, selVars>>
  /\ UNCHANGED <<clock, docVars, activeTool, viewVars, pendingLoads, selectionStart, dragVars,
                 selectedVideoSourceImage, previousToolRef, genVars>>


\* what the handlers registered at pointer-down captured from their render
\* (the selection is read by handleImageDragEnd only when its isOverTrash is true)
Captured(type, kind, obj) ==
  [type |-> type, kind |-> kind, id |-> obj.id, initialX |-> obj.x, initialY |-> obj.y,
   isDraggingForDelete |-> isDraggingForDelete, isOverTrash |-> isOverTrash,
   selectedImageIds |-> IF isOverTrash THEN selectedImageIds ELSE <<>>,
   selectedTextIds |-> IF isOverTrash THEN selectedTextIds ELSE <<>>,
   selectedDrawingCanvasIds |-> IF isOverTrash THEN selectedDrawingCanvasIds ELSE <<>>]

\* handleImageDragStart, with the selection of the captured render
DragStartSetsFlag ==
  Len(selectedImageIds) > 0 \/ Len(selectedTextIds) > 0 \/ Len(selectedDrawingCanvasIds) > 0

\* ImageNode.handleMouseDown(e, 'drag'); with pen or eraser on a selected image
\* the mask canvas takes the event instead
ImageNodePress(i, shiftKey) ==
    /\ PointerFree
    /\ ~(activeTool \in {"pen", "eraser"} /\ Includes(selectedImageIds, images[i].id))
    /\ Commit(handleNodeSelect(Cur, Cur, images[i].id, "image", shiftKey))
    /\ isDraggingForDelete' = IF DragStartSetsFlag THEN TRUE ELSE isDraggingForDelete
    /\ nodeAction' = Captured("drag", "image", images[i])
    /\ UNCHANGED <<clock, viewVars, pendingLoads, canvasVars, isOverTrash,
                   selectedVideoSourceImage, previousToolRef, genVars>>

ImageNodeMouseDown == \E i \in DOMAIN images, shiftKey \in BOOLEAN : ImageNodePress(i, shiftKey)

\* TextNode.handleActionStart(e, 'drag') of a text that is not being edited
TextNodePress(i, shiftKey) ==
    /\ PointerFree
    /\ Commit(handleNodeSelect(Cur, Cur, textObjects[i].id, "text", shiftKey))
    /\ isDraggingForDelete' = IF DragStartSetsFlag THEN TRUE ELSE isDraggingForDelete
    /\ nodeAction' = Captured("drag", "text", textObjects[i])
    /\ UNCHANGED <<clock, viewVars, pendingLoads, canvasVars, isOverTrash,
                   selectedVideoSourceImage, previousToolRef, genVars>>

TextNodeMouseDown == \E i \in DOMAIN textObjects, shiftKey \in BOOLEAN : TextNodePress(i, shiftKey)

\* DrawingCanvasNode.handleActionMouseDown(e, 'drag'): with pen or eraser an
\* unselected canvas is only selected, and a selected one is drawn on
DrawingCanvasNodePress(i, shiftKey) ==
    LET id == drawingCanvases[i].id
        isSelected == Includes(selectedDrawingCanvasIds, id)
    IN /\ PointerFree
       /\ ~(activeTool \in {"pen", "eraser"} /\ isSelected)
       /\ Commit(handleNodeSelect(Cur, Cur, id, "drawingCanvas", shiftKey))
       /\ IF activeTool \in {"pen", "eraser"}
          THEN UNCHANGED <<isDraggingForDelete, nodeAction>>
          ELSE /\ isDraggingForDelete' = IF DragStartSetsFlag THEN TRUE ELSE isDraggingForDelete
               /\ nodeAction' = Captured("drag", "drawingCanvas", drawingCanvases[i])
       /\ UNCHANGED <<clock, viewVars, pendingLoads, canvasVars, isOverTrash,
                      selectedVideoSourceImage, previousToolRef, genVars>>

DrawingCanvasNodeMouseDown ==
  \E i \in DOMAIN drawingCanvases, shiftKey \in BOOLEAN : DrawingCanvasNodePress(i, shiftKey)

MoveTo(objs, id, x, y) ==
  [i \in DOMAIN objs |-> IF objs[i].id = id THEN [objs[i] EXCEPT !.x = x, !.y = y] ELSE objs[i]]

\* the hit-test of handleImageDrag: the pointer of the mousemove event against
\* the rectangle of the trash target, for the drag the listener belongs to
HitTest(isOver, gesture) == [fn |-> "hitTest", isOver |-> isOver, gesture |-> gesture]

\* the mousemove listener registered at pointer-down: handleImageDrag of the
\* captured render, then the position update
NodeDragMove ==
  \E delta \in DragDeltas, isOver \in BOOLEAN :
    LET x == nodeAction.initialX + delta[1]
        y == nodeAction.initialY + delta[2]
    IN /\ nodeAction.type = "drag"
       /\ x <= MaxCoord /\ y <= MaxCoord
       /\ isOverTrash' = IF nodeAction.isDraggingForDelete THEN isOver ELSE isOverTrash
       /\ images' = IF nodeAction.kind = "image" THEN MoveTo(images, nodeAction.id, x, y) ELSE images
       /\ textObjects' = IF nodeAction.kind = "text" THEN MoveTo(textObjects, nodeAction.id, x, y) ELSE textObjects
       /\ drawingCanvases' = IF nodeAction.kind = "drawingCanvas"
                             THEN MoveTo(drawingCanvases, nodeAction.id, x, y) ELSE drawingCanvases
       /\ applied' = HitTest(isOver, nodeAction)
       /\ UNCHANGED <<clock, layerOrder, selVars, activeTool, viewVars, pendingLoads, canvasVars,
                      isDraggingForDelete, nodeAction, selectedVideoSourceImage, previousToolRef,
                      apiKey, isApiKeyModalOpen, activeModel, statusVars, runs, calls>>

\* handleImageDragEnd; c holds isOverTrash and the selection of the render it was made in
handleImageDragEnd(d, c) ==
  IF c.isOverTrash
  THEN deleteDrawingCanvases(
         deleteTextObjects(
           deleteImages(d, c.selectedImageIds), c.selectedTextIds), c.selectedDrawingCanvasIds)
  ELSE d

\* the mouseup listener registered at pointer-down
NodeMouseUp ==
  /\ nodeAction.type = "drag"
  /\ Commit(handleImageDragEnd(Cur, nodeAction))
  /\ isDraggingForDelete' = FALSE
  /\ isOverTrash' = FALSE
  /\ nodeAction' = NoAction
  /\ UNCHANGED <<clock, viewVars, pendingLoads, canvasVars, selectedVideoSourceImage,
                 previousToolRef, genVars>>

\* a keydown handler that deletes the selected images only
CanvasKeyDownImagesOnly(d) ==
  IF Len(selectedImageIds) > 0 THEN deleteImages(d, selectedImageIds) ELSE d

\* the keydown handler of the Canvas component
CanvasKeyDown(d) ==
  LET d1 == IF Len(selectedImageIds) > 0 THEN deleteImages(d, selectedImageIds) ELSE d
      d2 == IF Len(selectedTextIds) > 0 THEN deleteTextObjects(d1, selectedTextIds) ELSE d1
  IN IF Len(selectedDrawingCanvasIds) > 0
     THEN deleteDrawingCanvases(d2, selectedDrawingCanvasIds) ELSE d2

\* Delete or Backspace pressed; focusInText: document.activeElement is an INPUT or TEXTAREA
KeyPress(focusInText) ==
  /\ Commit(IF focusInText THEN Cur ELSE CanvasKeyDown(Cur))
  /\ UNCHANGED <<clock, viewVars, pendingLoads, canvasVars, dragVars, selectedVideoSourceImage,
                 previousToolRef, genVars>>

KeyDelete == \E focusInText \in BOOLEAN : KeyPress(focusInText)


\* keys the keydown handler of App.tsx reacts to (e.code for the tool keys, e.key for the others)
ToolKeys == {"KeyV", "KeyA", "KeyP", "KeyE", "KeyT"}

HoldKeys == {"Space", "Control"}

ToolOfKey(k) ==
  CASE k = "KeyV" -> "select" [] k = "KeyA" -> "pan" [] k = "KeyP" -> "pen"
    [] k = "KeyE" -> "eraser" [] k = "KeyT" -> "text"

HoldTool(k) == IF k = "Space" THEN "pan" ELSE "select"

\* a keyboard event as the window listener receives it, with the tool that was active
KeyEvent(type, k, focusInText, repeat, tool) ==
  [fn |-> type, key |-> k, focusInText |-> focusInText, repeat |-> repeat, tool |-> tool]

\* handleKeyDown of App.tsx; a press with focus in a text input, and an auto-repeat, return at once
KeyDown(k, focusInText, repeat, ctrlKey) ==
    /\ IF focusInText \/ repeat \/ (k = "KeyT" /\ ctrlKey)
       THEN UNCHANGED <<activeTool, previousToolRef>>
       ELSE IF k \in ToolKeys
            THEN activeTool' = ToolOfKey(k) /\ UNCHANGED previousToolRef
            ELSE IF activeTool # HoldTool(k)
                 THEN previousToolRef' = activeTool /\ activeTool' = HoldTool(k)
                 ELSE UNCHANGED <<activeTool, previousToolRef>>
    /\ applied' = KeyEvent("keydown", k, focusInText, repeat, activeTool)
    /\ UNCHANGED <<clock, docVars, selVars, viewVars, pendingLoads, canvasVars, dragVars,
                   selectedVideoSourceImage, apiKey, isApiKeyModalOpen, activeModel,
                   statusVars, runs, calls>>

handleKeyDown ==
  \E k \in ToolKeys \cup HoldKeys, focusInText \in BOOLEAN, repeat \in BOOLEAN, ctrlKey \in BOOLEAN :
    KeyDown(k, focusInText, repeat, ctrlKey)

\* handleKeyUp of App.tsx: the handler does not look at the focused element
KeyUp(k, focusInText) ==
    /\ activeTool' = IF previousToolRef # HoldTool(k) THEN previousToolRef ELSE activeTool
    /\ applied' = KeyEvent("keyup", k, focusInText, FALSE, activeTool)
    /\ UNCHANGED <<clock, docVars, selVars, viewVars, pendingLoads, canvasVars, dragVars,
                   selectedVideoSourceImage, previousToolRef, apiKey, isApiKeyModalOpen,
                   activeModel, statusVars, runs, calls>>

handleKeyUp == \E k \in HoldKeys, focusInText \in BOOLEAN : KeyUp(k, focusInText)

\* the objects the selection sets name, as the Canvas effect computes them for the context menu
SelectedObjectCount ==
  Len(SelectSeq(images, LAMBDA o : Includes(selectedImageIds, o.id)))
  + Len(SelectSeq(textObjects, LAMBDA o : Includes(selectedTextIds, o.id)))
  + Len(SelectSeq(drawingCanvases, LAMBDA o : Includes(selectedDrawingCanvasIds, o.id)))

totalSelectedCount == Len(selectedImageIds) + Len(selectedTextIds) + Len(selectedDrawingCanvasIds)

SingleVideoSelected ==
  /\ totalSelectedCount = 1
  /\ LET sel == SelectSeq(images, LAMBDA o : Includes(selectedImageIds, o.id))
     IN Len(sel) = 1 /\ sel[1].classification = "video"

MergeButtonShown == totalSelectedCount >= 1 /\ ~SingleVideoSelected /\ SelectedObjectCount > 0

\* the tool buttons: select and pan of the toolbar, text, pen and eraser of the
\* context menu shown for a single selected object
ToolButtonClick ==
  \E t \in Tools :
    /\ PointerFree
    /\ t \in {"text", "pen", "eraser"} => (MergeButtonShown /\ totalSelectedCount = 1)
    /\ activeTool' = t
    /\ UNCHANGED <<clock, docVars, selVars, viewVars, pendingLoads, canvasVars, dragVars,
                   selectedVideoSourceImage, previousToolRef, genVars>>

\* updateImage(id, newProps): shallow merge into every image with that id
SetMask(imgs, id, mask) ==
  [i \in DOMAIN imgs |-> IF imgs[i].id = id THEN [imgs[i] EXCEPT !.maskSrc = mask] ELSE imgs[i]]

\* a mask stroke on a selected image with pen or eraser: handleMaskMouseDown .. handleMaskMouseUp
PaintMask ==
  \E i \in DOMAIN images :
    /\ activeTool \in {"pen", "eraser"}
    /\ Includes(selectedImageIds, images[i].id)
    /\ images' = SetMask(images, images[i].id, "mask")
    /\ UNCHANGED <<clock, textObjects, drawingCanvases, layerOrder, selVars, activeTool, viewVars,
                   pendingLoads, canvasVars, dragVars, selectedVideoSourceImage, previousToolRef, genVars>>

\* a stroke on a selected drawing canvas: handleDrawingMouseDown .. handleDrawingMouseUp
DrawStroke ==
  \E i \in DOMAIN drawingCanvases :
    /\ activeTool \in {"pen", "eraser"}
    /\ Includes(selectedDrawingCanvasIds, drawingCanvases[i].id)
    /\ drawingCanvases' = [j \in DOMAIN drawingCanvases |->
                             IF drawingCanvases[j].id = drawingCanvases[i].id
                             THEN [drawingCanvases[j] EXCEPT !.drawingSrc = "drawing"]
                             ELSE drawingCanvases[j]]
    /\ UNCHANGED <<clock, images, textObjects, layerOrder, selVars, activeTool, viewVars,
                   pendingLoads, canvasVars, dragVars, selectedVideoSourceImage, previousToolRef, genVars>>

\* the names typed into the overlay of an image
ImageNames == {"hero"}

\* handleUpdateImageDetails, as the overlay calls it: onUpdate(image.id, { name })
handleUpdateImageDetails ==
  \E i \in DOMAIN images, name \in ImageNames :
    /\ PointerFree
    /\ images' = [j \in DOMAIN images |->
                    IF images[j].id = images[i].id THEN [images[j] EXCEPT !.name = name]
                    ELSE images[j]]
    /\ UNCHANGED <<clock, textObjects, drawingCanvases, layerOrder, selVars, activeTool, viewVars,
                   pendingLoads, canvasVars, dragVars, selectedVideoSourceImage, previousToolRef, genVars>>

\* handleOpenVideoModal / handleCloseVideoModal
handleOpenVideoModal ==
  \E i \in DOMAIN images :
    /\ PointerFree
    /\ selectedVideoSourceImage = <<>>
    /\ images[i].classification # "video"
    /\ selectedVideoSourceImage' = <<images[i]>>
    /\ UNCHANGED <<clock, docVars, selVars, activeTool, viewVars, pendingLoads, canvasVars, dragVars,
                   previousToolRef, genVars>>

handleCloseVideoModal ==
  /\ PointerFree
  /\ selectedVideoSourceImage # <<>>
  /\ selectedVideoSourceImage' = <<>>
  /\ UNCHANGED <<clock, docVars, selVars, activeTool, viewVars, pendingLoads, canvasVars, dragVars,
                 previousToolRef, genVars>>

\* handleAddVideoToCanvas, then onClose of the modal
handleAddVideoToCanvas ==
  /\ PointerFree
  /\ selectedVideoSourceImage # <<>>
  /\ HasRoom
  /\ LET source == selectedVideoSourceImage[1]
         newImage == MkImage(MkId("vid", clock), source.src, source.x + 50, source.y + 50,
                             source.width, source.height, source.naturalWidth, source.naturalHeight,
                             "video", "", "9:16", "video")
     IN /\ images' = Append(images, newImage)
        /\ layerOrder' = Append(layerOrder, newImage.id)
        /\ selectedImageIds' = <<newImage.id>>
  /\ selectedVideoSourceImage' = <<>>
  /\ UNCHANGED <<clock, textObjects, drawingCanvases, selectedTextIds, selectedDrawingCanvasIds,
                 activeTool, viewVars, pendingLoads, canvasVars, dragVars, previousToolRef, genVars>>

\* handleExtractLastFrame of a video object: video.onseeked calls addImageToCanvas
handleExtractLastFrame ==
  \E i \in DOMAIN images :
    /\ PointerFree
    /\ images[i].classification = "video" /\ images[i].videoSrc # ""
    /\ HasRoom /\ Len(pendingLoads) < MaxPending
    /\ pendingLoads' = Append(pendingLoads,
          LoadRequest("frame", <<images[i].naturalWidth, images[i].naturalHeight>>, "original", "",
                      images[i].targetAspectRatio, transform, TRUE,
                      images[i].x + images[i].width + 20, images[i].y,
                      images[i].width, images[i].height))
    /\ UNCHANGED <<clock, docVars, selVars, activeTool, viewVars, canvasVars, dragVars,
                   selectedVideoSourceImage, previousToolRef, genVars>>

\* what the component function sees at its first render: the initial values
\* of the useState calls
MountClosure ==
  [images |-> <<>>, textObjects |-> <<>>, drawingCanvases |-> <<>>,
   selectedImageIds |-> <<>>, selectedTextIds |-> <<>>, selectedDrawingCanvasIds |-> <<>>]

\* what the component function sees at the latest render
RenderClosure ==
  [images |-> images, textObjects |-> textObjects, drawingCanvases |-> drawingCanvases,
   selectedImageIds |-> selectedImageIds, selectedTextIds |-> selectedTextIds,
   selectedDrawingCanvasIds |-> selectedDrawingCanvasIds]

\* allSelectedObjects of handleMergeSelected, as boxes
allSelectedObjects(c) ==
  LET selectedImages == SelectSeq(c.images, LAMBDA img : Includes(c.selectedImageIds, img.id))
      selectedTexts == SelectSeq(c.textObjects, LAMBDA txt : Includes(c.selectedTextIds, txt.id))
      selectedCanvases == SelectSeq(c.drawingCanvases,
                                    LAMBDA can : Includes(c.selectedDrawingCanvasIds, can.id))
      BoxOfObject(o) == [x |-> o.x, y |-> o.y, width |-> o.width, height |-> o.height]
  IN [i \in DOMAIN selectedImages |-> BoxOfObject(selectedImages[i])]
     \o [i \in DOMAIN selectedTexts |-> BoxOfObject(selectedTexts[i])]
     \o [i \in DOMAIN selectedCanvases |-> BoxOfObject(selectedCanvases[i])]

MinOf(S) == CHOOSE n \in S : \A m \in S : n <= m

MaxOf(S) == CHOOSE n \in S : \A m \in S : n >= m

\* minX, minY, captureWidth and captureHeight of the selected objects
captureBox(objects) ==
  LET minX == MinOf({objects[i].x : i \in DOMAIN objects})
      minY == MinOf({objects[i].y : i \in DOMAIN objects})
      maxX == MaxOf({objects[i].x + objects[i].width : i \in DOMAIN objects})
      maxY == MaxOf({objects[i].y + objects[i].height : i \in DOMAIN objects})
  IN [x |-> minX, y |-> minY, width |-> maxX - minX, height |-> maxY - minY]

\* a call of handleMergeSelected: pc is "returned" (the early return),
\* "html2canvas" (the capture is awaited), "merged" or "alert"; c is the state
\* the callback was created with
Merge(pc, c) == [fn |-> "handleMergeSelected", pc |-> pc, c |-> c]

\* handleContextAction is created once (empty dependency list): the
\* handleMergeSelected it calls is the one of the first render
handleContextActionClosure(mount, render) == mount

\* the Merge button of the context menu (three or more selected objects):
\* handleContextAction('Merge') runs handleMergeSelected up to its first await
ContextActionMerge ==
  /\ PointerFree
  /\ MergeButtonShown
  /\ totalSelectedCount >= 3
  /\ LET c == handleContextActionClosure(MountClosure, RenderClosure)
     IN applied' = Merge(IF Len(allSelectedObjects(c)) <= 1 THEN "returned" ELSE "html2canvas", c)
  /\ UNCHANGED <<clock, docVars, selVars, activeTool, viewVars, pendingLoads, canvasVars, dragVars,
                 selectedVideoSourceImage, previousToolRef, apiKey, isApiKeyModalOpen, activeModel,
                 statusVars, runs, calls>>

\* html2canvas settles: the merged image is handed to the image loader and the
\* objects selected in the closure are deleted, or the alert is shown
MergeSettles ==
  /\ applied.fn = "handleMergeSelected"
  /\ applied.pc = "html2canvas"
  /\ \/ /\ Len(pendingLoads) < MaxPending
        /\ LET c == applied.c
               box == captureBox(allSelectedObjects(c))
           IN /\ pendingLoads' =
                   Append(pendingLoads,
                          LoadRequest("merged", <<box.width, box.height>>, "result", "", "", transform,
                                      TRUE, box.x, box.y, box.width, box.height))
              /\ Commit(deleteDrawingCanvases(
                          deleteTextObjects(deleteImages(Cur, c.selectedImageIds), c.selectedTextIds),
                          c.selectedDrawingCanvasIds))
        /\ applied' = Merge("merged", applied.c)
        /\ UNCHANGED <<clock, viewVars, canvasVars, dragVars, selectedVideoSourceImage,
                       previousToolRef, apiKey, isApiKeyModalOpen, activeModel, statusVars,
                       runs, calls>>
     \/ /\ applied' = Merge("alert", applied.c)
        /\ UNCHANGED <<clock, docVars, selVars, activeTool, viewVars, pendingLoads, canvasVars,
                       dragVars, selectedVideoSourceImage, previousToolRef, apiKey,
                       isApiKeyModalOpen, activeModel, statusVars, runs, calls>>

\* handleNewProject, confirmed
handleNewProject ==
  /\ PointerFree
  /\ images' = <<>> /\ textObjects' = <<>> /\ drawingCanvases' = <<>> /\ layerOrder' = <<>>
  /\ projectName' = "Untitled Story"
  /\ selectedImageIds' = <<>> /\ selectedTextIds' = <<>> /\ selectedDrawingCanvasIds' = <<>>
  /\ aspectRatio' = "9:16"
  /\ UNCHANGED <<clock, activeTool, transform, pendingLoads, canvasVars, dragVars,
                 selectedVideoSourceImage, previousToolRef, genVars>>

\* the alert of the catch block of loadProjectFromFile
LoadAlert == [fn |-> "alert", message |-> "Failed to load project."]

\* loadProjectFromFile of the file f: every read of the archive comes before
\* the first state update; the catch block shows the alert
loadProject(f) ==
  /\ PointerFree
  /\ FileObjects(f) + Reserved <= MaxObjects
  /\ applied.fn \in {"none", "alert"}
  /\ IF LoadFails(f)
     THEN /\ applied' = LoadAlert
          /\ UNCHANGED <<docVars, selVars, viewVars>>
     ELSE /\ images' = f.images
          /\ textObjects' = f.textObjects
          /\ drawingCanvases' = f.drawingCanvases
          /\ layerOrder' = IF f.hasLayerOrder THEN f.layerOrder ELSE layerOrder
          /\ aspectRatio' = IF f.aspectRatio # "" THEN f.aspectRatio ELSE aspectRatio
          /\ transform' = IF f.hasTransform THEN f.transform ELSE transform
          /\ projectName' = IF f.projectName # "" THEN f.projectName ELSE "file"
          /\ selectedImageIds' = <<>> /\ selectedTextIds' = <<>> /\ selectedDrawingCanvasIds' = <<>>
          /\ applied' = NotApplied
  /\ UNCHANGED <<clock, activeTool, pendingLoads, canvasVars, dragVars,
                 selectedVideoSourceImage, previousToolRef, apiKey, isApiKeyModalOpen, activeModel,
                 statusVars, runs, calls>>

loadProjectFromFile == \E f \in ProjectFiles : loadProject(f)

\* the aspect-ratio select of the prompt bar, disabled while a generation runs
TargetRatios == {"9:16", "1:1"}

onAspectRatioChange ==
  \E r \in TargetRatios :
    /\ PointerFree
    /\ ~isLoading
    /\ aspectRatio' = r
    /\ UNCHANGED <<clock, docVars, selVars, activeTool, transform, projectName, pendingLoads,
                   canvasVars, dragVars, selectedVideoSourceImage, previousToolRef, genVars>>


(***************************************************************************)
(* Strings: toLowerCase and includes of the error classification.          *)
(***************************************************************************)
UpperCase == "ABCDEFGHIJKLMNOPQRSTUVWXYZ"

LowerCase == "abcdefghijklmnopqrstuvwxyz"

LowerChar(c) ==
  IF \E i \in 1..Len(UpperCase) : SubSeq(UpperCase, i, i) = c
  THEN LET i == CHOOSE i \in 1..Len(UpperCase) : SubSeq(UpperCase, i, i) = c
       IN SubSeq(LowerCase, i, i)
  ELSE c

\* String.prototype.toLowerCase, character by character
RECURSIVE toLowerCase(_)
toLowerCase(s) ==
  IF Len(s) = 0 THEN ""
  ELSE IF Len(s) = 1 THEN LowerChar(s)
  ELSE LET half == Len(s) \div 2
       IN toLowerCase(SubSeq(s, 1, half)) \o toLowerCase(SubSeq(s, half + 1, Len(s)))

\* String.prototype.includes
includes(s, sub) == \E i \in 1..(Len(s) - Len(sub) + 1) : SubSeq(s, i, i + Len(sub) - 1) = sub

\* a small number as it is printed inside a template string
Digit(n) == SubSeq("0123456789", n + 1, n + 1)

(***************************************************************************)
(* The service wrappers of geminiService.ts.  A response is what the SDK   *)
(* call produced: a candidate with a finish reason and maybe an image, or  *)
(* an error the SDK threw, which the wrapper rethrows.                     *)
(***************************************************************************)
\* a thrown value: message is error.message; hasJson says that the message
\* holds a JSON object, whose code, message and status follow
ErrorOf(message) ==
  [message |-> message, hasJson |-> FALSE, code |-> 0, jmessage |-> "", status |-> ""]

ApiError(code, message, status) ==
  [message |-> "{\"error\":{\"code\":" \o Digit(code \div 100) \o Digit((code \div 10) % 10)
                 \o Digit(code % 10) \o ",\"message\":\"" \o message
                 \o "\",\"status\":\"" \o status \o "\"}}",
   hasJson |-> TRUE, code |-> code, jmessage |-> message, status |-> status]

NoError == ErrorOf("")

Returned(size) == [ok |-> TRUE, size |-> size, error |-> NoError]

Thrown(error) == [ok |-> FALSE, size |-> <<0, 0>>, error |-> error]

Candidate(finishReason, hasImage, size) ==
  [threw |-> FALSE, error |-> NoError, finishReason |-> finishReason, hasImage |-> hasImage, size |-> size]

SdkThrows(error) ==
  [threw |-> TRUE, error |-> error, finishReason |-> "", hasImage |-> FALSE, size |-> <<0, 0>>]

\* editImage: the checks on the first candidate of the response
editImage(response) ==
  IF response.threw THEN Thrown(response.error)
  ELSE IF response.finishReason = "SAFETY"
       THEN Thrown(ErrorOf("SAFETY_BLOCK: The request was blocked by safety filters."))
  ELSE IF response.finishReason = "PROHIBITED_CONTENT"
       THEN Thrown(ErrorOf("PROHIBITED_CONTENT: The request was blocked because it contains prohibited content."))
  ELSE IF response.finishReason = "BLOCKLIST"
       THEN Thrown(ErrorOf("BLOCKLIST: The request was blocked by blocklist."))
  ELSE IF response.finishReason = "RECITATION"
       THEN Thrown(ErrorOf("RECITATION: The request was blocked due to recitation."))
  ELSE IF response.hasImage THEN Returned(response.size)
  ELSE Thrown(ErrorOf("No edited image was returned from the API. The model might have been blocked or returned text."))

\* generateImage with the Imagen model, the only model the orchestrator passes it
generateImage(response) ==
  IF response.threw THEN Thrown(response.error)
  ELSE IF response.hasImage THEN Returned(response.size)
  ELSE Thrown(ErrorOf("No images were generated. This might be due to safety filters."))

\* sizes of the images the service returns
ResultSizes == {<<768, 1376>>}

SafetyFinishReasons == {"SAFETY", "PROHIBITED_CONTENT", "BLOCKLIST", "RECITATION"}

\* errors the SDK throws: overload, quota, oversized request, network failure
SdkErrors ==
  { ApiError(503, "The model is overloaded. Please try again later.", "UNAVAILABLE"),
    ApiError(429, "You exceeded your current quota.", "RESOURCE_EXHAUSTED"),
    ApiError(400, "Request payload size exceeds the limit.", "INVALID_ARGUMENT"),
    ErrorOf("Failed to fetch") }

Responses ==
  {Candidate("STOP", TRUE, size) : size \in ResultSizes}
  \cup {Candidate(r, FALSE, <<0, 0>>) : r \in SafetyFinishReasons \cup {"STOP"}}
  \cup {Candidate(r, TRUE, size) : r \in SafetyFinishReasons, size \in ResultSizes}
  \cup {SdkThrows(e) : e \in SdkErrors}

(***************************************************************************)
(* handleGenerateImage: the parts of one attempt that are pure functions   *)
(* of the closure.                                                         *)
(***************************************************************************)
maxRetries == 3

\* the constant prompt of the second call of the two-step path (its text, partly
\* Korean, is abbreviated to one word)
outpaintingPrompt == "outpaint"

ItemOfImage(img) ==
  [id |-> img.id, type |-> "image", src |-> img.src, x |-> img.x,
   width |-> img.width, height |-> img.height, maskSrc |-> img.maskSrc, name |-> img.name]

ItemOfCanvas(canvas) ==
  [id |-> canvas.id, type |-> "canvas", src |-> canvas.drawingSrc, x |-> canvas.x,
   width |-> canvas.width, height |-> canvas.height, maskSrc |-> "", name |-> ""]

\* Op of an operand that is evaluated once, as a const declaration holds its value
Once(value, Op(_)) == CHOOSE result \in {Op(v) : v \in {value}} : TRUE

\* the items as they were collected, not sorted
Unsorted(items) == items

\* Array.prototype.sort((a, b) => a.x - b.x): stable, ascending by x
RECURSIVE SortByX(_)
SortByX(unsorted) ==
  Once(unsorted, LAMBDA items :
    IF Len(items) = 0 THEN <<>>
    ELSE Once(SortByX(SubSeq(items, 1, Len(items) - 1)), LAMBDA sorted :
           LET item == items[Len(items)]
               k == Cardinality({j \in DOMAIN sorted : sorted[j].x <= item.x})
           IN SubSeq(sorted, 1, k) \o <<item>> \o SubSeq(sorted, k + 1, Len(sorted))))

\* selectedImages, selectedCanvases and editableItems of the closure c
editableItems(c) ==
  LET selectedImages == SelectSeq(c.images, LAMBDA img : Includes(c.selectedImageIds, img.id))
      selectedCanvases == SelectSeq(c.drawingCanvases,
                                    LAMBDA canvas : Includes(c.selectedDrawingCanvasIds, canvas.id))
  IN SortByX([i \in DOMAIN selectedImages |-> ItemOfImage(selectedImages[i])]
             \o [i \in DOMAIN selectedCanvases |-> ItemOfCanvas(selectedCanvases[i])])

\* selectionOrderMap of the canvas: the 1-based rank by x of every selected
\* image, text and drawing canvas, empty unless more than one is selected
selectionOrderMap(d) ==
  LET totalSelected == Len(d.selectedImageIds) + Len(d.selectedTextIds)
                         + Len(d.selectedDrawingCanvasIds)
      selectedImages == SelectSeq(d.images, LAMBDA img : Includes(d.selectedImageIds, img.id))
      selectedTexts == SelectSeq(d.textObjects, LAMBDA txt : Includes(d.selectedTextIds, txt.id))
      selectedCanvases == SelectSeq(d.drawingCanvases,
                                    LAMBDA can : Includes(d.selectedDrawingCanvasIds, can.id))
      Entry(o) == [id |-> o.id, x |-> o.x]
      allSelected == SortByX([i \in DOMAIN selectedImages |-> Entry(selectedImages[i])]
                             \o [i \in DOMAIN selectedTexts |-> Entry(selectedTexts[i])]
                             \o [i \in DOMAIN selectedCanvases |-> Entry(selectedCanvases[i])])
  IN IF totalSelected <= 1 THEN <<>>
     ELSE [id \in {allSelected[i].id : i \in DOMAIN allSelected} |->
             CHOOSE index \in DOMAIN allSelected : allSelected[index].id = id]

\* the model of the toggle, whatever is selected
currentModelOfToggle(activeModelOfClosure, items) == activeModelOfClosure

\* let currentModel = activeModel, forced to Imagen 4 when nothing is selected
currentModel(activeModelOfClosure, items) ==
  IF Len(items) = 0 THEN "imagen-4.0-generate-001"
  ELSE IF includes(activeModelOfClosure, "imagen") THEN "gemini-3-pro-image-preview"
  ELSE activeModelOfClosure

\* a comparison with a tolerance of 0.1
isMatchingAspectRatioLoose(item, ar) ==
  Abs(item.width * RatioH(ar) - RatioW(ar) * item.height) * 10 < item.height * RatioH(ar)

\* Math.abs(width / height - targetW / targetH) < 0.01, on integers
isMatchingAspectRatio(item, ar) ==
  Abs(item.width * RatioH(ar) - RatioW(ar) * item.height) * 100 < item.height * RatioH(ar)

isSingleStep(items, ar) == Len(items) = 1 /\ isMatchingAspectRatio(items[1], ar)

\* validReferenceData: the items that have a source
validReferenceData(items) == SelectSeq(items, LAMBDA item : item.src # "")

\* the reference entries the attempt writes to the debug log
ReferenceLabels(items) ==
  [i \in DOMAIN items |->
     [label |-> "Reference " \o Digit(i) \o " (" \o items[i].type \o ")", src |-> items[i].src]]

\* a start of the log that keeps what earlier attempts wrote
startDebugLogAppends(prev, items) == prev \o ReferenceLabels(items)

\* setDebugImages(editableItems.map(...)) at the start of an edit attempt: the
\* log is replaced, not extended
startDebugLog(prev, items) == ReferenceLabels(items)

EntityLabels(items) ==
  [i \in DOMAIN items |->
     [label |-> "Reference " \o Digit(i) \o " (" \o items[i].name \o ")", src |-> items[i].src]]

\* a mask part for every single item with a mask, whatever its ratio
hasMaskPartAnyRatio(items, ar) == Len(items) = 1 /\ items[1].maskSrc # ""

\* the mask part: only on the single-step path and only if the item has a mask
hasMaskPart(items, ar) == isSingleStep(items, ar) /\ items[1].maskSrc # ""

characterImages(c) == SelectSeq(c.images, LAMBDA img : img.classification = "character" /\ img.name # "")

backgroundImages(c) == SelectSeq(c.images, LAMBDA img : img.classification = "background" /\ img.name # "")

\* one call of the service as the log keeps it
Call(fn, attempt, prompt, refs, model, mask, ar) ==
  [fn |-> fn, attempt |-> attempt, prompt |-> prompt, refs |-> refs, model |-> model,
   mask |-> mask, aspectRatio |-> ar]

(***************************************************************************)
(* The catch block of an attempt.                                          *)
(***************************************************************************)
cleanMessage(error) ==
  IF error.hasJson /\ error.jmessage # "" THEN error.jmessage
  ELSE IF error.message # "" THEN error.message
  ELSE "Unknown error"

\* a safety test that does not look for "blocked"
isSafetyBlockWithoutBlocked(msgLower) ==
  \/ includes(msgLower, "safety_block")
  \/ includes(msgLower, "prohibited") \/ includes(msgLower, "recitation")

isSafetyBlock(msgLower) ==
  \/ includes(msgLower, "safety_block") \/ includes(msgLower, "blocked")
  \/ includes(msgLower, "prohibited") \/ includes(msgLower, "recitation")

isClientError(msgLower) ==
  \/ includes(msgLower, "400") \/ includes(msgLower, "invalid_argument")
  \/ includes(msgLower, "payload") \/ includes(msgLower, "too large")

\* an overload test that looks at the message only
is503MessageOnly(error, msgLower) ==
  includes(msgLower, "overloaded")

is503(error, msgLower) ==
  \/ error.hasJson /\ (error.code = 503 \/ error.status = "UNAVAILABLE")
  \/ includes(msgLower, "503") \/ includes(msgLower, "overloaded") \/ includes(msgLower, "unavailable")

is429(error, msgLower) ==
  \/ error.hasJson /\ (error.code = 429 \/ error.status = "RESOURCE_EXHAUSTED")
  \/ includes(msgLower, "429") \/ includes(msgLower, "quota") \/ includes(msgLower, "resource_exhausted")

\* the classification of a caught error: ERROR CLASSIFICATION of the catch block
Classification(error) ==
  LET msgLower == toLowerCase(cleanMessage(error))
  IN [safety |-> isSafetyBlock(msgLower), client |-> isClientError(msgLower),
      is503 |-> is503(error, msgLower), is429 |-> is429(error, msgLower)]

\* every error an attempt can catch, with its classification worked out once
\* further errors the SDK and the network can raise
OtherErrors ==
  { ApiError(503, "The service is currently unavailable.", "UNAVAILABLE"),
    ErrorOf("got status: 503 Service Unavailable"),
    ApiError(500, "Internal error encountered.", "INTERNAL"),
    ApiError(400, "API key not valid. Please pass a valid API key.", "INVALID_ARGUMENT"),
    ApiError(429, "Quota exceeded for payload bytes per minute.", "RESOURCE_EXHAUSTED"),
    ErrorOf("") }

CaughtErrors ==
  {editImage(r).error : r \in Responses} \cup {generateImage(r).error : r \in Responses}
  \cup {ErrorOf("Selected items have no data.")}
  \cup OtherErrors

ClassOf == [error \in CaughtErrors |-> Classification(error)]

Min(a, b) == IF a < b THEN a ELSE b

Pow2(n) == IF n = 0 THEN 1 ELSE IF n = 1 THEN 2 ELSE IF n = 2 THEN 4 ELSE 8

\* a backoff that waits one second on a quota failure
RetryDelayQuotaShort(class, attempt) ==
  IF class.is503 THEN Min(1000 * Pow2(attempt - 1), 5000)
  ELSE IF class.is429 THEN 1000
  ELSE 2000

RetryDelay(class, attempt) ==
  IF class.is503 THEN Min(1000 * Pow2(attempt - 1), 5000)
  ELSE IF class.is429 THEN 5000
  ELSE 2000

\* the texts shown to the user (in Korean in the source)
SafetyMessage == "blocked by the safety policy or prohibited content: change the prompt"

ClientMessage == "the image data is too large: reduce the input images or simplify the prompt"

OverloadedMessage == "the server is very busy (503 Overloaded): try again later"

QuotaMessage == "API usage exceeded (429 Quota Exceeded): try again later or use another account"

FailedMessage == "generation failed: see the detailed error in the console"

RetryMessage(class, attempt) ==
  LET count == " (" \o Digit(attempt) \o "/" \o Digit(maxRetries) \o ")"
  IN IF class.is503
     THEN "server overloaded (503): retrying in "
          \o Digit(RetryDelay(class, attempt) \div 1000) \o "s..." \o count
     ELSE IF class.is429 THEN "usage limit reached: waiting..." \o count
     ELSE "error: retrying..." \o count

ExhaustedMessage(class) ==
  IF class.is503 THEN OverloadedMessage
  ELSE IF class.is429 THEN QuotaMessage
  ELSE FailedMessage

(***************************************************************************)
(* handleGenerateImage as a process: every await is a point where a run    *)
(* waits; the state updates between two awaits are one step.               *)
(***************************************************************************)
\* the state the steps of a run write
GenCur ==
  [images |-> images, selectedImageIds |-> selectedImageIds,
   selectedDrawingCanvasIds |-> selectedDrawingCanvasIds, activeTool |-> activeTool,
   pendingLoads |-> pendingLoads, isLoading |-> isLoading, loadingMessage |-> loadingMessage,
   errorMessage |-> errorMessage, detailedError |-> detailedError, debugImages |-> debugImages,
   runs |-> runs, calls |-> calls]

GenWrite(next) ==
  \E g \in {next} :
    /\ images' = g.images
    /\ selectedImageIds' = g.selectedImageIds
    /\ selectedDrawingCanvasIds' = g.selectedDrawingCanvasIds
    /\ activeTool' = g.activeTool
    /\ pendingLoads' = g.pendingLoads
    /\ isLoading' = g.isLoading
    /\ loadingMessage' = g.loadingMessage
    /\ errorMessage' = g.errorMessage
    /\ detailedError' = g.detailedError
    /\ debugImages' = g.debugImages
    /\ runs' = g.runs
    /\ calls' = g.calls
    /\ UNCHANGED <<clock, textObjects, drawingCanvases, layerOrder, selectedTextIds, viewVars,
                   canvasVars, dragVars, selectedVideoSourceImage, previousToolRef,
                   apiKey, isApiKeyModalOpen, activeModel>>

GenCommit(next) == GenWrite(next) /\ UNCHANGED applied

RemoveAt(s, i) == SubSeq(s, 1, i - 1) \o SubSeq(s, i + 1, Len(s))

\* what the closure of a call of handleGenerateImage captured
Closure(prompt) ==
  [prompt |-> prompt, images |-> images, drawingCanvases |-> drawingCanvases,
   selectedImageIds |-> selectedImageIds, selectedDrawingCanvasIds |-> selectedDrawingCanvasIds,
   aspectRatio |-> aspectRatio, activeModel |-> activeModel, transform |-> transform]

Run(c) == [pc |-> "attempt", attempt |-> 1, mode |-> "", delay |-> 0, c |-> c]

\* a catch block that empties the selection when it ends the sequence
catchBlockClearsSelection(g, i, error) ==
  LET run == g.runs[i]
      class == ClassOf[error]
      g1 == [g EXCEPT !.detailedError = "Reason: " \o cleanMessage(error)]
      Stop(message) == [g1 EXCEPT !.errorMessage = message, !.isLoading = FALSE,
                                  !.loadingMessage = "", !.runs = RemoveAt(@, i),
                                  !.selectedImageIds = <<>>,
                                  !.selectedDrawingCanvasIds = <<>>]
  IN IF class.safety THEN Stop(SafetyMessage)
     ELSE IF class.client THEN Stop(ClientMessage)
     ELSE IF run.attempt < maxRetries
          THEN [g1 EXCEPT !.loadingMessage = RetryMessage(class, run.attempt),
                          !.runs[i].pc = "backoff",
                          !.runs[i].delay = RetryDelay(class, run.attempt)]
          ELSE Stop(ExhaustedMessage(class))

\* the catch block: terminal for safety blocks and client errors and for the
\* last attempt, a backoff otherwise
\* a catch block that looks at the client class only when no attempt is left
catchBlockRetriesClient(g, i, error) ==
  LET run == g.runs[i]
      class == ClassOf[error]
      g1 == [g EXCEPT !.detailedError = "Reason: " \o cleanMessage(error)]
      Stop(message) == [g1 EXCEPT !.errorMessage = message, !.isLoading = FALSE,
                                  !.loadingMessage = "", !.runs = RemoveAt(@, i)]
  IN IF class.safety THEN Stop(SafetyMessage)
     ELSE IF run.attempt < maxRetries
          THEN [g1 EXCEPT !.loadingMessage = RetryMessage(class, run.attempt),
                          !.runs[i].pc = "backoff",
                          !.runs[i].delay = RetryDelay(class, run.attempt)]
          ELSE IF class.client THEN Stop(ClientMessage)
          ELSE Stop(ExhaustedMessage(class))

\* the catch block of an attempt: the safety and the client tests come first,
\* then the wait before the next attempt or the end of the sequence
catchBlock(g, i, error) ==
  LET run == g.runs[i]
      class == ClassOf[error]
      g1 == [g EXCEPT !.detailedError = "Reason: " \o cleanMessage(error)]
      Stop(message) == [g1 EXCEPT !.errorMessage = message, !.isLoading = FALSE,
                                  !.loadingMessage = "", !.runs = RemoveAt(@, i)]
  IN IF class.safety THEN Stop(SafetyMessage)
     ELSE IF class.client THEN Stop(ClientMessage)
     ELSE IF run.attempt < maxRetries
          THEN [g1 EXCEPT !.loadingMessage = RetryMessage(class, run.attempt),
                          !.runs[i].pc = "backoff",
                          !.runs[i].delay = RetryDelay(class, run.attempt)]
          ELSE Stop(ExhaustedMessage(class))

\* addImageToCanvas(finalImgSrc, 'result', { prompt, targetAspectRatio }) of the closure
addResult(g, c, size) ==
  [g EXCEPT !.pendingLoads = Append(@, LoadRequest("result", size, "result", c.prompt,
                                                    c.aspectRatio, c.transform, FALSE, 0, 0, 0, 0))]

\* an exit of the edit paths that empties the selection and keeps the masks
clearAfterEditKeepsMask(g, c) ==
  [g EXCEPT !.selectedImageIds = <<>>,
            !.selectedDrawingCanvasIds = <<>>]

\* after an edit: the masks of the images selected at submit go, the selection is emptied
clearAfterEdit(g, c) ==
  [g EXCEPT !.images = [k \in DOMAIN @ |->
                          IF Includes(c.selectedImageIds, @[k].id)
                          THEN [@[k] EXCEPT !.maskSrc = ""] ELSE @[k]],
            !.selectedImageIds = <<>>,
            !.selectedDrawingCanvasIds = <<>>]

\* the exit of a successful attempt
\* a success exit that leaves the retry message in place
exitSuccessKeepsMessage(g, i) ==
  [g EXCEPT !.isLoading = FALSE, !.activeTool = "select", !.runs = RemoveAt(@, i)]

\* setIsLoading(false), setLoadingMessage(null), setActiveTool('select'), return
exitSuccess(g, i) ==
  [g EXCEPT !.isLoading = FALSE, !.loadingMessage = "", !.activeTool = "select",
            !.runs = RemoveAt(@, i)]

\* String.prototype.trim, for blanks
RECURSIVE trim(_)
trim(s) ==
  IF Len(s) = 0 THEN s
  ELSE IF SubSeq(s, 1, 1) = " " THEN trim(SubSeq(s, 2, Len(s)))
  ELSE IF SubSeq(s, Len(s), Len(s)) = " " THEN trim(SubSeq(s, 1, Len(s) - 1))
  ELSE s

\* the guards without the test of isLoading
SubmitAcceptedWhileLoading(prompt) == trim(prompt) # "" /\ prompt # ""

\* the guard of PromptInput.handleSubmit, then the guard of handleGenerateImage
SubmitAccepted(prompt) ==
  /\ trim(prompt) # "" /\ ~isLoading
  /\ ~(prompt = "" \/ isLoading)

\* a credential test that lets every submit pass
hasCredentialAlways(key) == TRUE

\* if (!apiKey) of handleGenerateImage
hasCredential(key) == key # ""

\* a submit of one prompt: the guards, the credential check and the reset of the status
Submit(prompt) ==
  /\ PointerFree
  /\ (SubmitAccepted(prompt) /\ hasCredential(apiKey)) => clock < MaxClock
  /\ IF ~SubmitAccepted(prompt)
     THEN UNCHANGED vars
     ELSE IF ~hasCredential(apiKey)
     THEN /\ isApiKeyModalOpen' = TRUE
          /\ UNCHANGED <<clock, docVars, selVars, activeTool, viewVars, pendingLoads, canvasVars,
                         dragVars, selectedVideoSourceImage, previousToolRef, apiKey, activeModel,
                         statusVars, runs, calls, applied>>
     ELSE /\ isLoading' = TRUE
          /\ loadingMessage' = ""
          /\ errorMessage' = ""
          /\ detailedError' = ""
          /\ debugImages' = <<>>
          /\ runs' = Append(runs, Run(Closure(prompt)))
          /\ calls' = <<>>
          /\ clock' = clock + 1
          /\ UNCHANGED <<docVars, selVars, activeTool, viewVars, pendingLoads, canvasVars,
                         dragVars, selectedVideoSourceImage, previousToolRef, apiKey,
                         isApiKeyModalOpen, activeModel, applied>>

handleSubmit == \E prompt \in Prompts : Submit(prompt)

\* handleApiKeySubmit with a key that validates
handleApiKeySubmit ==
  /\ isApiKeyModalOpen
  /\ apiKey' = "key"
  /\ isApiKeyModalOpen' = FALSE
  /\ UNCHANGED <<clock, docVars, selVars, activeTool, viewVars, pendingLoads, canvasVars, dragVars,
                 selectedVideoSourceImage, previousToolRef, activeModel, statusVars, runs, calls,
                 applied>>

\* the start of an attempt, up to its first service call
AttemptStart ==
  \E i \in DOMAIN runs :
   \E items \in {editableItems(runs[i].c)}, g \in {GenCur} :
    LET run == runs[i]
        c == run.c
        model == currentModel(c.activeModel, items)
        refs == validReferenceData(items)
    IN /\ run.pc = "attempt"
       /\ IF Len(items) > 0
          THEN IF Len(refs) = 0
               THEN GenCommit(catchBlock(g, i, ErrorOf("Selected items have no data.")))
               ELSE GenCommit(
                      [g EXCEPT !.debugImages = startDebugLog(@, items),
                                !.calls = Append(@, Call("editImage", run.attempt, c.prompt, Ids(refs),
                                                         model, hasMaskPart(items, c.aspectRatio),
                                                         c.aspectRatio)),
                                !.runs[i].pc = "editImage",
                                !.runs[i].mode = IF isSingleStep(items, c.aspectRatio)
                                                 THEN "single" ELSE "two"])
          ELSE IF Len(characterImages(c)) > 0 /\ Len(backgroundImages(c)) > 0
               THEN GenCommit(
                      [g EXCEPT !.calls = Append(@, Call("parsePromptForEntities", run.attempt, c.prompt,
                                                         <<>>, "gemini-2.5-flash", FALSE, c.aspectRatio)),
                                !.runs[i].pc = "parsePromptForEntities"])
               ELSE GenCommit(
                      [g EXCEPT !.calls = Append(@, Call("generateImage", run.attempt, c.prompt, <<>>,
                                                         model, FALSE, c.aspectRatio)),
                                !.runs[i].pc = "generateImage"])

\* a debug-log entry
Artifact(label, src) == [label |-> label, src |-> src]

\* the first editImage call of an attempt settles
EditImageSettles ==
  \E i \in DOMAIN runs, response \in Responses :
    LET run == runs[i]
        c == run.c
        out == editImage(response)
        g == GenCur
    IN /\ run.pc = "editImage"
       /\ IF ~out.ok
          THEN GenCommit(catchBlock(g, i, out.error))
          ELSE IF run.mode = "single"
          THEN GenCommit(
                 exitSuccess(
                   clearAfterEdit(
                     addResult([g EXCEPT !.debugImages = Append(@, Artifact("Final Result (1-Step)", "final"))],
                               c, out.size),
                     c),
                   i))
          ELSE GenCommit(
                 [g EXCEPT !.debugImages =
                              Append(@, Artifact(IF run.mode = "entity" THEN "Step 1: Initial Combination"
                                                 ELSE "Step 1: Initial Edit", "initial")),
                           !.runs[i].pc = "createPaddedImage"])

\* createPaddedImage and optimizeImageForApi resolve: the outpainting call is made
PaddedImageReady ==
  \E i \in DOMAIN runs :
    LET run == runs[i]
        c == run.c
        model == IF run.mode = "entity" THEN "gemini-3-pro-image-preview"
                 ELSE currentModel(c.activeModel, editableItems(c))
    IN /\ run.pc = "createPaddedImage"
       /\ \/ GenCommit(
               [GenCur EXCEPT !.debugImages = Append(@, Artifact("Step 2: Padded for Outpainting", "padded")),
                              !.calls = Append(@, Call("editImage", run.attempt, outpaintingPrompt,
                                                       <<MkId("padded", run.attempt)>>, model, FALSE,
                                                       c.aspectRatio)),
                              !.runs[i].pc = "outpaint"])
          \* img.onerror = reject: the returned data is no image; the event has no message
          \/ GenCommit(catchBlock(GenCur, i, ErrorOf("")))

\* the outpainting call settles
OutpaintSettles ==
  \E i \in DOMAIN runs, response \in Responses :
    LET run == runs[i]
        c == run.c
        out == editImage(response)
        g == GenCur
        g1 == addResult([g EXCEPT !.debugImages = Append(@, Artifact("Step 3: Final Result", "final"))],
                        c, out.size)
    IN /\ run.pc = "outpaint"
       /\ IF ~out.ok
          THEN GenCommit(catchBlock(g, i, out.error))
          ELSE IF run.mode = "entity"
          THEN GenCommit(exitSuccess(g1, i))
          ELSE GenCommit(exitSuccess(clearAfterEdit(g1, c), i))

\* Array.prototype.find by name; <<>> when there is none
FindByName(imgs, name) ==
  LET found == SelectSeq(imgs, LAMBDA img : img.name = name)
  IN IF Len(found) = 0 THEN <<>> ELSE <<found[1]>>

\* what the extraction request can come back with: a rejection, a text that
\* is empty or no JSON, or a JSON object whose two names are null (""), a name
\* of either list, or a name of neither
EntityNames == {"", "hero", "city", "stranger"}

ParseResponses ==
  {[kind |-> "throws", characterName |-> "", backgroundName |-> ""],
   [kind |-> "empty", characterName |-> "", backgroundName |-> ""],
   [kind |-> "malformed", characterName |-> "", backgroundName |-> ""]}
  \cup [kind : {"json"}, characterName : EntityNames, backgroundName : EntityNames]

Entities(characterName, backgroundName) ==
  [characterName |-> characterName, backgroundName |-> backgroundName]

\* an extraction that returns the names of the response as they are
parsePromptForEntitiesUnchecked(response, characterNames, backgroundNames) ==
  IF Len(characterNames) = 0 \/ Len(backgroundNames) = 0 THEN Entities("", "")
  ELSE IF response.kind # "json" THEN Entities("", "")
  ELSE Entities(response.characterName, response.backgroundName)

\* parsePromptForEntities: null ("") for both names when a list is empty, when
\* the request or JSON.parse throws and when the text is empty; otherwise each
\* name of the response if it is in its list, else null
parsePromptForEntities(response, characterNames, backgroundNames) ==
  IF Len(characterNames) = 0 \/ Len(backgroundNames) = 0 THEN Entities("", "")
  ELSE IF response.kind # "json" THEN Entities("", "")
  ELSE Entities(IF response.characterName # "" /\ Includes(characterNames, response.characterName)
                THEN response.characterName ELSE "",
                IF response.backgroundName # "" /\ Includes(backgroundNames, response.backgroundName)
                THEN response.backgroundName ELSE "")

\* the names an extraction was given and what it returned
Extracted(characterNames, backgroundNames, result) ==
  [fn |-> "parsePromptForEntities", characterNames |-> characterNames,
   backgroundNames |-> backgroundNames, result |-> result]

\* the await of parsePromptForEntities resolves; the attempt goes on to the
\* combination edit or to the fallback
ParseSettles ==
  \E i \in DOMAIN runs, response \in ParseResponses :
    LET run == runs[i]
        c == run.c
        g == GenCur
        characterNames == [k \in DOMAIN characterImages(c) |-> characterImages(c)[k].name]
        backgroundNames == [k \in DOMAIN backgroundImages(c) |-> backgroundImages(c)[k].name]
        result == parsePromptForEntities(response, characterNames, backgroundNames)
        characterName == result.characterName
        backgroundName == result.backgroundName
        imagesToEdit == FindByName(characterImages(c), characterName)
                        \o FindByName(backgroundImages(c), backgroundName)
    IN /\ run.pc = "parsePromptForEntities"
       /\ applied' = Extracted(characterNames, backgroundNames, result)
       /\ IF characterName # "" /\ backgroundName # "" /\ Len(imagesToEdit) = 2
          THEN GenWrite(
                 [g EXCEPT !.debugImages =
                              EntityLabels([k \in DOMAIN imagesToEdit |-> ItemOfImage(imagesToEdit[k])]),
                           !.calls = Append(@, Call("editImage", run.attempt, c.prompt,
                                                    Ids(imagesToEdit), "gemini-3-pro-image-preview",
                                                    FALSE, c.aspectRatio)),
                           !.runs[i].pc = "editImage",
                           !.runs[i].mode = "entity"])
          ELSE GenWrite(
                 [g EXCEPT !.calls = Append(@, Call("generateImage", run.attempt, c.prompt, <<>>,
                                                    currentModel(c.activeModel, editableItems(c)),
                                                    FALSE, c.aspectRatio)),
                           !.runs[i].pc = "generateImage"])

\* the generateImage call of the fallback settles
GenerateImageSettles ==
  \E i \in DOMAIN runs, response \in Responses :
    LET run == runs[i]
        out == generateImage(response)
        g == GenCur
    IN /\ run.pc = "generateImage"
       /\ IF ~out.ok
          THEN GenCommit(catchBlock(g, i, out.error))
          ELSE GenCommit(
                 exitSuccess(
                   addResult([g EXCEPT !.debugImages = <<Artifact("Final Result (Imagen 4)", "final")>>],
                             run.c, out.size),
                   i))

\* a loop that does not count its attempts
BackoffElapsedSameAttempt ==
  \E i \in DOMAIN runs :
    /\ runs[i].pc = "backoff"
    /\ GenCommit([GenCur EXCEPT !.runs[i].pc = "attempt",
                                !.runs[i].delay = 0,
                                !.runs[i].mode = ""])

\* the timer of the backoff fires: the loop goes to the next attempt
BackoffElapsed ==
  \E i \in DOMAIN runs :
    /\ runs[i].pc = "backoff"
    /\ GenCommit([GenCur EXCEPT !.runs[i].pc = "attempt",
                                !.runs[i].attempt = @ + 1,
                                !.runs[i].delay = 0,
                                !.runs[i].mode = ""])

\* the model buttons of the header
Models == {"gemini-2.5-flash-image", "gemini-3-pro-image-preview"}

setActiveModel ==
  \E m \in Models :
    /\ PointerFree
    /\ activeModel' = m
    /\ UNCHANGED <<clock, docVars, selVars, activeTool, viewVars, pendingLoads, canvasVars, dragVars,
                   selectedVideoSourceImage, previousToolRef, apiKey, isApiKeyModalOpen,
                   statusVars, runs, calls, applied>>

(***************************************************************************)
(* Initial state: the application after mount.                             *)
(***************************************************************************)
Init ==
  /\ clock = 0
  /\ images = <<>> /\ textObjects = <<>> /\ drawingCanvases = <<>> /\ layerOrder = <<>>
  /\ selectedImageIds = <<>> /\ selectedTextIds = <<>> /\ selectedDrawingCanvasIds = <<>>
  /\ activeTool = "pan"
  /\ aspectRatio = "9:16"
  /\ transform = MountTransform
  /\ projectName = "Untitled Story"
  /\ pendingLoads = <<>>
  /\ isPanning = FALSE /\ isSelecting = FALSE
  /\ selectionStart = <<0, 0>> /\ selectionBox = NoBox
  /\ isDraggingForDelete = FALSE /\ isOverTrash = FALSE /\ nodeAction = NoAction
  /\ selectedVideoSourceImage = <<>>
  /\ previousToolRef = "pan"
  /\ apiKey = ""
  /\ isApiKeyModalOpen = FALSE
  /\ activeModel = "gemini-2.5-flash-image"
  /\ isLoading = FALSE /\ loadingMessage = "" /\ errorMessage = "" /\ detailedError = ""
  /\ debugImages = <<>>
  /\ runs = <<>>
  /\ calls = <<>>
  /\ applied = NotApplied

\* the document and interaction handlers
DocNext ==
  \/ Tick
  \/ handleFileUpload
  \/ ImageOnload
  \/ AddDrawingCanvas
  \/ CanvasMouseDown
  \/ CanvasMouseMoveSelect
  \/ CanvasMouseUpOrLeave
  \/ ImageNodeMouseDown
  \/ TextNodeMouseDown
  \/ DrawingCanvasNodeMouseDown
  \/ NodeMouseUp
  \/ KeyDelete
  \/ ToolButtonClick
  \/ handleNewProject
  \/ loadProjectFromFile

\* the steps of the generation orchestrator
GenSteps ==
  \/ handleSubmit
  \/ handleApiKeySubmit
  \/ AttemptStart
  \/ EditImageSettles
  \/ PaddedImageReady
  \/ OutpaintSettles
  \/ ParseSettles
  \/ GenerateImageSettles
  \/ BackoffElapsed

\* the remaining handlers
OtherNext ==
  \/ NodeDragMove
  \/ handleKeyDown
  \/ handleKeyUp
  \/ PaintMask
  \/ DrawStroke
  \/ handleUpdateImageDetails
  \/ handleOpenVideoModal
  \/ handleCloseVideoModal
  \/ handleAddVideoToCanvas
  \/ handleExtractLastFrame
  \/ onAspectRatioChange
  \/ setActiveModel
  \/ ContextActionMerge
  \/ MergeSettles

Next == DocNext \/ GenSteps \/ OtherNext

\* the whole application
Spec == Init /\ [][Next]_vars

\* the document model alone: adds, selection, deletion, new and load
SpecDoc == Init /\ [][DocNext]_vars

(***************************************************************************)
(* Generation, started from documents a session can have arrived at: a     *)
(* loaded project with an uploaded image, a painted and an unpainted       *)
(* drawing canvas and, optionally, a named character and background image, *)
(* with one of several selections, target ratios, models and masks.        *)
(***************************************************************************)
GenImage == MkImage(MkId("img", -3), "upload", 50, 0, 900, 1600, 900, 1600, "original", "", "", "")

PaintedCanvas ==
  [id |-> MkId("canvas", -2), x |-> 10, y |-> 0, width |-> BASE_DIMENSION, height |-> BASE_DIMENSION,
   drawingSrc |-> "drawing"]

EmptyCanvas ==
  [id |-> MkId("canvas", -1), x |-> 30, y |-> 0, width |-> BASE_DIMENSION, height |-> BASE_DIMENSION,
   drawingSrc |-> ""]

Hero ==
  [MkImage(MkId("img", -5), "upload", 2000, 0, 1024, 1024, 1024, 1024, "character", "", "", "")
     EXCEPT !.name = "hero"]

City ==
  [MkImage(MkId("img", -4), "upload", 4000, 0, 1024, 1024, 1024, 1024, "background", "", "", "")
     EXCEPT !.name = "city"]

\* the selections generation is started with: <<image ids, canvas ids>>
GenSelections ==
  { <<<<>>, <<>>>>,
    <<<<GenImage.id>>, <<>>>>,
    <<<<>>, <<PaintedCanvas.id>>>>,
    <<<<>>, <<EmptyCanvas.id>>>>,
    <<<<GenImage.id>>, <<PaintedCanvas.id, EmptyCanvas.id>>>> }

InitGen ==
  /\ clock = 0
  /\ \E mask \in {"", "mask"}, entities \in BOOLEAN :
       images = <<[GenImage EXCEPT !.maskSrc = mask]>> \o (IF entities THEN <<Hero, City>> ELSE <<>>)
  /\ textObjects = <<>>
  /\ drawingCanvases = <<PaintedCanvas, EmptyCanvas>>
  /\ layerOrder = Ids(images) \o Ids(drawingCanvases)
  /\ \E sel \in GenSelections : selectedImageIds = sel[1] /\ selectedDrawingCanvasIds = sel[2]
  /\ selectedTextIds = <<>>
  /\ activeTool = "select"
  /\ aspectRatio \in TargetRatios
  /\ transform = MountTransform
  /\ projectName = "saved"
  /\ pendingLoads = <<>>
  /\ isPanning = FALSE /\ isSelecting = FALSE
  /\ selectionStart = <<0, 0>> /\ selectionBox = NoBox
  /\ isDraggingForDelete = FALSE /\ isOverTrash = FALSE /\ nodeAction = NoAction
  /\ selectedVideoSourceImage = <<>>
  /\ previousToolRef = "pan"
  /\ apiKey \in {"", "key"}
  /\ isApiKeyModalOpen = FALSE
  /\ activeModel \in Models
  /\ isLoading = FALSE /\ loadingMessage = "" /\ errorMessage = "" /\ detailedError = ""
  /\ debugImages = <<>>
  /\ runs = <<>>
  /\ calls = <<>>
  /\ applied = NotApplied

GenNext ==
  \/ GenSteps
  \/ ImageOnload
  \/ KeyDelete
  \/ CanvasMouseDown
  \/ CanvasMouseUpOrLeave

SpecGen == InitGen /\ [][GenNext]_vars

\* the generation handlers alone
SpecSubmit == InitGen /\ [][GenSteps]_vars

\* loads, new projects and edits of a document that has a selection
LoadNext ==
  \/ loadProjectFromFile
  \/ handleNewProject
  \/ KeyDelete
  \/ onAspectRatioChange

SpecLoad == InitGen /\ [][LoadNext]_vars

\* the generation sequence alone, for a document opened with a key entered
InitLive ==
  /\ InitGen
  /\ apiKey = "key"
  /\ activeModel = "gemini-2.5-flash-image"

LiveNext ==
  \/ handleSubmit
  \/ AttemptStart
  \/ EditImageSettles
  \/ PaddedImageReady
  \/ OutpaintSettles
  \/ ParseSettles
  \/ GenerateImageSettles
  \/ BackoffElapsed

\* every awaited promise settles and every timer fires in the end; nothing
\* makes the user submit
SpecLive ==
  /\ InitLive
  /\ [][LiveNext]_vars
  /\ WF_vars(AttemptStart)
  /\ WF_vars(EditImageSettles)
  /\ WF_vars(PaddedImageReady)
  /\ WF_vars(OutpaintSettles)
  /\ WF_vars(ParseSettles)
  /\ WF_vars(GenerateImageSettles)
  /\ WF_vars(BackoffElapsed)

(***************************************************************************)
(* The start of an attempt on its own: two images and a drawing canvas at  *)
(* drawn positions and sizes, a drawn selection and target ratio; a prompt *)
(* is submitted and the first attempt starts.                              *)
(***************************************************************************)
Xs == {10, 30, 50}

AttemptSizes == {<<900, 1600>>, <<1024, 1024>>, <<99, 100>>, <<100, 101>>, <<1600, 900>>}

\* the sizes addDrawingCanvas gives at 9:16 and at 1:1
CanvasSizes == {<<576, 1024>>, <<1024, 1024>>}

ImageA(x, size) == MkImage(MkId("img", -3), "a", x, 0, size[1], size[2], size[1], size[2], "original", "", "", "")

ImageB(x) == MkImage(MkId("img", -2), "b", x, 0, 1024, 1024, 1024, 1024, "original", "", "", "")

CanvasC(x, size, drawingSrc) ==
  [id |-> MkId("canvas", -1), x |-> x, y |-> 0, width |-> size[1], height |-> size[2],
   drawingSrc |-> drawingSrc]

InitAttempt ==
  /\ clock = 0
  /\ \E xa \in Xs, xb \in Xs, size \in AttemptSizes : images = <<ImageA(xa, size), ImageB(xb)>>
  /\ textObjects = <<>>
  /\ \E xc \in Xs, size \in CanvasSizes, drawingSrc \in {"", "c"} :
       drawingCanvases = <<CanvasC(xc, size, drawingSrc)>>
  /\ layerOrder = Ids(images) \o Ids(drawingCanvases)
  /\ selectedImageIds \in {<<>>, <<MkId("img", -3)>>, <<MkId("img", -2)>>,
                           <<MkId("img", -3), MkId("img", -2)>>}
  /\ selectedDrawingCanvasIds \in {<<>>, <<MkId("canvas", -1)>>}
  /\ selectedTextIds = <<>>
  /\ activeTool = "select"
  /\ aspectRatio \in TargetRatios
  /\ transform = MountTransform
  /\ projectName = "saved"
  /\ pendingLoads = <<>>
  /\ isPanning = FALSE /\ isSelecting = FALSE
  /\ selectionStart = <<0, 0>> /\ selectionBox = NoBox
  /\ isDraggingForDelete = FALSE /\ isOverTrash = FALSE /\ nodeAction = NoAction
  /\ selectedVideoSourceImage = <<>>
  /\ previousToolRef = "pan"
  /\ apiKey = "key"
  /\ isApiKeyModalOpen = FALSE
  /\ activeModel = "gemini-2.5-flash-image"
  /\ isLoading = FALSE /\ loadingMessage = "" /\ errorMessage = "" /\ detailedError = ""
  /\ debugImages = <<>>
  /\ runs = <<>>
  /\ calls = <<>>
  /\ applied = NotApplied

AttemptNext ==
  \/ handleSubmit
  \/ AttemptStart

SpecAttempt == InitAttempt /\ [][AttemptNext]_vars

(***************************************************************************)
(* The catch block on its own: a sequence waits for a call in one of its   *)
(* attempts, the call fails with a drawn error, the catch block runs and   *)
(* the backoff, if any, elapses.                                           *)
(***************************************************************************)
CatchPcs == {"editImage", "outpaint", "generateImage"}

NoSelectionClosure ==
  [prompt |-> "add a hat", images |-> <<>>, drawingCanvases |-> <<>>,
   selectedImageIds |-> <<>>, selectedDrawingCanvasIds |-> <<>>,
   aspectRatio |-> "9:16", activeModel |-> "gemini-2.5-flash-image", transform |-> MountTransform]

InitCatch ==
  /\ clock = 1
  /\ images = <<>> /\ textObjects = <<>> /\ drawingCanvases = <<>>
  /\ layerOrder = <<>>
  /\ selectedImageIds = <<>> /\ selectedTextIds = <<>> /\ selectedDrawingCanvasIds = <<>>
  /\ activeTool = "select"
  /\ aspectRatio = "9:16"
  /\ transform = MountTransform
  /\ projectName = "Untitled Story"
  /\ pendingLoads = <<>>
  /\ isPanning = FALSE /\ isSelecting = FALSE
  /\ selectionStart = <<0, 0>> /\ selectionBox = NoBox
  /\ isDraggingForDelete = FALSE /\ isOverTrash = FALSE /\ nodeAction = NoAction
  /\ selectedVideoSourceImage = <<>>
  /\ previousToolRef = "pan"
  /\ apiKey = "key"
  /\ isApiKeyModalOpen = FALSE
  /\ activeModel = "gemini-2.5-flash-image"
  /\ isLoading = TRUE /\ loadingMessage = "" /\ errorMessage = "" /\ detailedError = ""
  /\ debugImages = <<>>
  /\ \E pc \in CatchPcs, attempt \in 1..maxRetries :
       runs = <<[pc |-> pc, attempt |-> attempt,
                 mode |-> IF pc = "generateImage" THEN "" ELSE "two",
                 delay |-> 0, c |-> NoSelectionClosure]>>
  /\ calls = <<>>
  /\ \E error \in CaughtErrors : applied = [fn |-> "catch", error |-> error]

\* the awaited call rejects with the drawn error
CallRejects ==
  /\ Len(runs) = 1
  /\ runs[1].pc \in CatchPcs
  /\ GenCommit(catchBlock(GenCur, 1, applied.error))

CatchNext ==
  \/ CallRejects
  \/ BackoffElapsed

SpecCatch == InitCatch /\ [][CatchNext]_vars

(***************************************************************************)
(* handleMoveToFront on its own: a layer order is drawn, the function is   *)
(* applied to an id and then once more to the same id.                     *)
(***************************************************************************)
MoveIds == {MkId("img", 0), MkId("img", 1), MkId("txt", 0), MkId("canvas", 0)}

\* the sequences without repetition over a set of ids, up to a length
RECURSIVE SeqsNoRep(_, _)
SeqsNoRep(S, n) ==
  IF n = 0 THEN {<<>>}
  ELSE LET shorter == SeqsNoRep(S, n - 1)
       IN shorter \cup UNION {{Append(q, e) : e \in S \ Range(q)} : q \in shorter}

LayerOrders == SeqsNoRep(MoveIds, MaxLen)

InitMoveToFront ==
  /\ clock = 0
  /\ images = <<>> /\ textObjects = <<>> /\ drawingCanvases = <<>>
  /\ layerOrder \in LayerOrders
  /\ selectedImageIds = <<>> /\ selectedTextIds = <<>> /\ selectedDrawingCanvasIds = <<>>
  /\ activeTool = "pan"
  /\ aspectRatio = "9:16"
  /\ transform = MountTransform
  /\ projectName = "Untitled Story"
  /\ pendingLoads = <<>>
  /\ isPanning = FALSE /\ isSelecting = FALSE
  /\ selectionStart = <<0, 0>> /\ selectionBox = NoBox
  /\ isDraggingForDelete = FALSE /\ isOverTrash = FALSE /\ nodeAction = NoAction
  /\ selectedVideoSourceImage = <<>>
  /\ previousToolRef = "pan"
  /\ apiKey = ""
  /\ isApiKeyModalOpen = FALSE
  /\ activeModel = "gemini-2.5-flash-image"
  /\ isLoading = FALSE /\ loadingMessage = "" /\ errorMessage = "" /\ detailedError = ""
  /\ debugImages = <<>>
  /\ runs = <<>>
  /\ calls = <<>>
  /\ applied = NotApplied

\* setLayerOrder(prev => ...) of handleMoveToFront, first for any id, then again for that id
MoveToFront ==
  \E id \in MoveIds :
    /\ \/ applied.fn = "none"
       \/ applied.fn = "handleMoveToFront" /\ applied.count = 1 /\ applied.id = id
    /\ layerOrder' = handleMoveToFront(layerOrder, id)
    /\ applied' = IF applied.fn = "none"
                  THEN [fn |-> "handleMoveToFront", id |-> id, prev |-> layerOrder,
                        once |-> layerOrder', count |-> 1]
                  ELSE [applied EXCEPT !.count = 2]
    /\ UNCHANGED <<clock, images, textObjects, drawingCanvases, selVars, activeTool, viewVars,
                   pendingLoads, canvasVars, dragVars, selectedVideoSourceImage, previousToolRef,
                   apiKey, isApiKeyModalOpen, activeModel, statusVars, runs, calls>>

SpecMoveToFront == InitMoveToFront /\ [][MoveToFront]_vars

(***************************************************************************)
(* Saving and loading a project: handleSaveProject writes an archive,      *)
(* loadProjectFromFile reads it.  A source string is a record of its kind: *)
(* undefined, '', null, a data URL with its media type and base64 text, an *)
(* object URL (blob:...) with the bytes it stands for in this session, or  *)
(* a path into the archive.                                                *)
(***************************************************************************)
\* the state outside the document, at rest
Idle ==
  /\ clock = 0
  /\ selectedImageIds = <<>> /\ selectedTextIds = <<>> /\ selectedDrawingCanvasIds = <<>>
  /\ activeTool = "pan"
  /\ pendingLoads = <<>>
  /\ isPanning = FALSE /\ isSelecting = FALSE
  /\ selectionStart = <<0, 0>> /\ selectionBox = NoBox
  /\ isDraggingForDelete = FALSE /\ isOverTrash = FALSE /\ nodeAction = NoAction
  /\ selectedVideoSourceImage = <<>>
  /\ previousToolRef = "pan"
  /\ apiKey = ""
  /\ isApiKeyModalOpen = FALSE
  /\ activeModel = "gemini-2.5-flash-image"
  /\ isLoading = FALSE /\ loadingMessage = "" /\ errorMessage = "" /\ detailedError = ""
  /\ debugImages = <<>>
  /\ runs = <<>>
  /\ calls = <<>>

Undefined == [kind |-> "undefined"]

EmptyString == [kind |-> "empty"]

Null == [kind |-> "null"]

DataUrl(mime, data) == [kind |-> "data", mime |-> mime, data |-> data]

ObjectUrl(bytes) == [kind |-> "blob", bytes |-> bytes]

AssetPath(name) == [kind |-> "path", name |-> name]

\* the truth value JavaScript gives a source string
Truthy(v) == v.kind \notin {"undefined", "empty", "null"}

\* the '=' of base64 text; the other characters are their values 0..63
Pad == 64

\* btoa: three bytes give four characters, the last group is padded
RECURSIVE Base64Encode(_)
Base64Encode(bytes) ==
  IF Len(bytes) = 0 THEN <<>>
  ELSE IF Len(bytes) = 1
  THEN <<bytes[1] \div 4, (bytes[1] % 4) * 16, Pad, Pad>>
  ELSE IF Len(bytes) = 2
  THEN <<bytes[1] \div 4, (bytes[1] % 4) * 16 + bytes[2] \div 16, (bytes[2] % 16) * 4, Pad>>
  ELSE <<bytes[1] \div 4, (bytes[1] % 4) * 16 + bytes[2] \div 16,
         (bytes[2] % 16) * 4 + bytes[3] \div 64, bytes[3] % 64>>
       \o Base64Encode(SubSeq(bytes, 4, Len(bytes)))

\* the decoding JSZip applies to { base64: true } content
RECURSIVE Base64Decode(_)
Base64Decode(text) ==
  IF Len(text) < 4 THEN <<>>
  ELSE LET first == text[1] * 4 + text[2] \div 16
           second == (text[2] % 16) * 16 + text[3] \div 4
           third == (text[3] % 4) * 64 + text[4]
       IN IF text[3] = Pad THEN <<first>>
          ELSE IF text[4] = Pad THEN <<first, second>>
          ELSE <<first, second, third>> \o Base64Decode(SubSeq(text, 5, Len(text)))

\* parseDataUrl: split(','), the media type between ':' and ';'; a string
\* without a comma (an object URL, '') gives no data
parseDataUrl(dataUrl) ==
  IF dataUrl.kind # "data" THEN [mimeType |-> "image/png", data |-> <<>>]
  ELSE [mimeType |-> IF dataUrl.mime \in {"application/octet-stream", "binary/octet-stream"}
                     THEN "image/png" ELSE dataUrl.mime,
        data |-> dataUrl.data]

\* the field of a JavaScript object: undefined if the object has no such key
Get(obj, key) == IF key \in DOMAIN obj THEN obj[key] ELSE Undefined

\* the optional fields of an object: a source, or the array of poses
OptionalFields == {"modelSheetSrc", "videoSrc", "maskSrc", "drawingSrc", "poses"}

PoseArray(slots) == [kind |-> "array", slots |-> slots]

IsUndefined(obj, key) == key \in OptionalFields /\ obj[key].kind = "undefined"

\* JSON.parse(JSON.stringify(obj)) of an object: keys whose value is undefined are left out
JsonObject(obj) == [key \in {k \in DOMAIN obj : ~IsUndefined(obj, k)} |-> obj[key]]

\* obj with obj[key] = value
With(obj, key, value) ==
  [k \in DOMAIN obj \cup {key} |-> IF k = key THEN value ELSE obj[k]]

\* addAsset: the file `${prefix}_${Date.now()}_${random}.${ext}` of the assets
\* folder, its content decoded from base64; the names of one save differ
addAsset(dataUrl, name) ==
  [name |-> name, content |-> Base64Decode(parseDataUrl(dataUrl).data)]

PoseSlots == 1..2

\* the source fields of an image that a save moves into the archive
SavedFields(img) ==
  {"src"} \cup {f \in {"modelSheetSrc", "videoSrc", "maskSrc"} : Truthy(Get(img, f))}

\* if (img.poses): the slots that hold a pose
SavedPoses(img) ==
  IF Get(img, "poses").kind = "undefined" THEN {}
  ELSE {n \in DOMAIN img["poses"].slots : Truthy(img["poses"].slots[n])}

\* processedImages: the image with its sources replaced by paths
processedImage(img, i) ==
  LET withPaths == [k \in DOMAIN img |->
                      IF k \in SavedFields(img) THEN AssetPath(<<k, i, 0>>)
                      ELSE IF k = "poses" /\ img[k].kind = "array"
                      THEN PoseArray([n \in DOMAIN img[k].slots |->
                                        IF n \in SavedPoses(img) THEN AssetPath(<<"pose", i, n>>)
                                        ELSE img[k].slots[n]])
                      ELSE img[k]]
  IN withPaths

imageAssets(img, i) ==
  {addAsset(img[f], <<f, i, 0>>) : f \in SavedFields(img)}
  \cup {addAsset(img["poses"].slots[n], <<"pose", i, n>>) : n \in SavedPoses(img)}

processedDrawing(canvas, i) ==
  IF Truthy(Get(canvas, "drawingSrc"))
  THEN With(canvas, "drawingSrc", AssetPath(<<"draw", i, 0>>))
  ELSE canvas

drawingAssets(canvas, i) ==
  IF Truthy(Get(canvas, "drawingSrc"))
  THEN {addAsset(canvas["drawingSrc"], <<"draw", i, 0>>)}
  ELSE {}

\* the archive handleSaveProject hands to saveAs: project.json and the assets
SavedArchive ==
  [fileName |-> projectName \o ".story",
   assets |-> UNION {imageAssets(images[i], i) : i \in DOMAIN images}
              \cup UNION {drawingAssets(drawingCanvases[i], i) : i \in DOMAIN drawingCanvases},
   projectData |->
     [version |-> 1,
      projectName |-> projectName,
      images |-> [i \in DOMAIN images |-> JsonObject(processedImage(images[i], i))],
      textObjects |-> [i \in DOMAIN textObjects |-> JsonObject(textObjects[i])],
      drawingCanvases |-> [i \in DOMAIN drawingCanvases |->
                             JsonObject(processedDrawing(drawingCanvases[i], i))],
      layerOrder |-> layerOrder,
      aspectRatio |-> aspectRatio,
      transform |-> transform]]

\* loadAsset: '' for a missing file; FileReader.readAsDataURL of the blob
\* JSZip makes, which has no type
loadAsset(zip, path) ==
  IF \E file \in zip.assets : file.name = path.name
  THEN LET file == CHOOSE f \in zip.assets : f.name = path.name
       IN DataUrl("application/octet-stream", Base64Encode(file.content))
  ELSE EmptyString

restoredImage(zip, img) ==
  [k \in DOMAIN img |->
     IF k = "src" THEN loadAsset(zip, img[k])
     ELSE IF k \in {"modelSheetSrc", "videoSrc", "maskSrc"} /\ Truthy(img[k])
     THEN loadAsset(zip, img[k])
     ELSE IF k = "poses" /\ img[k].kind = "array"
     THEN PoseArray([n \in DOMAIN img[k].slots |->
                       IF Truthy(img[k].slots[n]) THEN loadAsset(zip, img[k].slots[n])
                       ELSE img[k].slots[n]])
     ELSE img[k]]

restoredDrawing(zip, canvas) ==
  IF Truthy(Get(canvas, "drawingSrc"))
  THEN With(canvas, "drawingSrc", loadAsset(zip, canvas["drawingSrc"]))
  ELSE canvas

\* file.name.replace(/\.[^/.]+$/, "")
RECURSIVE LastDot(_, _)
LastDot(name, i) ==
  IF i = 0 THEN 0
  ELSE IF SubSeq(name, i, i) = "." THEN i
  ELSE IF SubSeq(name, i, i) = "/" THEN 0
  ELSE LastDot(name, i - 1)

WithoutExtension(name) ==
  LET dot == LastDot(name, Len(name))
  IN IF dot = 0 \/ dot = Len(name) THEN name ELSE SubSeq(name, 1, dot - 1)

\* the payloads, as bytes
Payloads == {<<255>>, <<77, 97>>, <<0, 16, 131>>, <<137, 80, 78, 71>>}

PngUrl == DataUrl("image/png", Base64Encode(<<137, 80, 78, 71>>))

JpegUrl == DataUrl("image/jpeg", Base64Encode(<<255>>))

\* the images a session can hold: an upload, with or without a mask, a model
\* sheet and poses, and the video object handleAddVideoToCanvas makes, whose
\* videoSrc is what generateVideo returned: URL.createObjectURL(blob)
SessionImages ==
  { [id |-> MkId("img", 1), src |-> src, x |-> 0, y |-> 0, width |-> 900, height |-> 1600,
     classification |-> cls, maskSrc |-> mask, modelSheetSrc |-> sheet, poses |-> poses,
     videoSrc |-> video] :
      src \in {PngUrl, JpegUrl},
      cls \in {"original"},
      mask \in {Undefined, DataUrl("image/png", Base64Encode(<<77, 97>>))},
      sheet \in {Undefined, DataUrl("image/png", Base64Encode(<<0, 16, 131>>))},
      poses \in {Undefined, PoseArray([n \in PoseSlots |-> Null]),
                 PoseArray([n \in PoseSlots |-> IF n = 2 THEN PngUrl ELSE Null])},
      video \in {Undefined} }
  \cup
  { [id |-> MkId("vid", 1), src |-> PngUrl, x |-> 50, y |-> 50, width |-> 900, height |-> 1600,
     classification |-> "video", maskSrc |-> Undefined, modelSheetSrc |-> Undefined,
     poses |-> Undefined, videoSrc |-> ObjectUrl(<<0, 16, 131>>)] }

SessionCanvases ==
  { [id |-> MkId("canvas", 2), x |-> 0, y |-> 0, width |-> 768, height |-> 1376,
     drawingSrc |-> drawing] :
      drawing \in {EmptyString, DataUrl("image/png", Base64Encode(<<255>>))} }

SessionTexts ==
  { [id |-> MkId("txt", 3), content |-> "hi", x |-> 0, y |-> 0, width |-> 200, height |-> 50,
     fontSize |-> 48, fontFamily |-> "Inter", color |-> "#000000"] }

ProjectNames == {"Untitled Story", "", "v1.2"}

InitSave ==
  /\ Idle
  /\ \E img \in SessionImages : images = <<img>>
  /\ \E canvas \in SessionCanvases : drawingCanvases = <<canvas>>
  /\ \E text \in SessionTexts : textObjects \in {<<>>, <<text>>}
  /\ layerOrder = Ids(drawingCanvases) \o Ids(images) \o Ids(textObjects)
  /\ aspectRatio \in TargetRatios
  /\ transform \in {MountTransform, [x |-> -40, y |-> 12, scale10 |-> 50]}
  /\ projectName \in ProjectNames
  /\ applied = NotApplied

\* handleSaveProject: the archive is written, the state is as it was
handleSaveProject ==
  /\ applied.fn = "none"
  /\ applied' = [fn |-> "handleSaveProject", file |-> SavedArchive,
                 saved |-> [images |-> images, textObjects |-> textObjects,
                            drawingCanvases |-> drawingCanvases, layerOrder |-> layerOrder,
                            aspectRatio |-> aspectRatio, transform |-> transform,
                            projectName |-> projectName]]
  /\ UNCHANGED <<clock, docVars, selVars, activeTool, viewVars, pendingLoads, canvasVars, dragVars,
                 selectedVideoSourceImage, previousToolRef, apiKey, isApiKeyModalOpen, activeModel,
                 statusVars, runs, calls>>

\* handleNewProject between the save and the load
NewProjectAfterSave ==
  /\ applied.fn = "handleSaveProject"
  /\ handleNewProject

\* loadProjectFromFile on the archive that was saved
loadSavedProject ==
  /\ applied.fn = "handleSaveProject"
  /\ LET zip == applied.file
         projectData == zip.projectData
     IN /\ images' = [i \in DOMAIN projectData.images |-> restoredImage(zip, projectData.images[i])]
        /\ textObjects' = projectData.textObjects
        /\ drawingCanvases' = [i \in DOMAIN projectData.drawingCanvases |->
                                 restoredDrawing(zip, projectData.drawingCanvases[i])]
        /\ layerOrder' = projectData.layerOrder
        /\ aspectRatio' = IF projectData.aspectRatio # "" THEN projectData.aspectRatio ELSE aspectRatio
        /\ transform' = projectData.transform
        /\ projectName' = IF projectData.projectName # "" THEN projectData.projectName
                          ELSE WithoutExtension(zip.fileName)
  /\ selectedImageIds' = <<>> /\ selectedTextIds' = <<>> /\ selectedDrawingCanvasIds' = <<>>
  /\ applied' = [applied EXCEPT !.fn = "loadProjectFromFile"]
  /\ UNCHANGED <<clock, activeTool, pendingLoads, canvasVars, dragVars, selectedVideoSourceImage,
                 previousToolRef, apiKey, isApiKeyModalOpen, activeModel, statusVars, runs, calls>>

SaveNext ==
  \/ handleSaveProject
  \/ NewProjectAfterSave
  \/ loadSavedProject

SpecSave == InitSave /\ [][SaveNext]_vars

(***************************************************************************)
(* The view: wheel zoom, pan and the transform of a loaded project.  The   *)
(* origin of the transform is a quotient of integers here, because a zoom  *)
(* multiplies it by newScale / oldScale; a quotient with denominator 0 is  *)
(* Infinity, -Infinity or NaN.                                             *)
(***************************************************************************)
RECURSIVE GCD(_, _)
GCD(a, b) == IF b = 0 THEN a ELSE GCD(b, a % b)

Max(a, b) == IF a > b THEN a ELSE b

Sign(n) == IF n > 0 THEN 1 ELSE IF n < 0 THEN -1 ELSE 0

\* the quotient n / d in lowest terms, the denominator not negative
Quot(n, d) ==
  IF d = 0 THEN [num |-> Sign(n), den |-> 0]
  ELSE LET g == GCD(Abs(n), Abs(d))
       IN [num |-> (Sign(d) * n) \div g, den |-> Abs(d) \div g]

FromInt(n) == [num |-> n, den |-> 1]

\* the product, common factors taken out before the multiplication
Times(a, b) ==
  LET p == Quot(a.num, b.den)
      q == Quot(b.num, a.den)
  IN IF a.den = 0 \/ b.den = 0 THEN Quot(a.num * b.num, 0)
     ELSE Quot(p.num * q.num, p.den * q.den)

Minus(a, b) ==
  IF a.den = 0 /\ b.den = 0
  THEN (IF a.num # 0 /\ a.num = -b.num THEN a ELSE [num |-> 0, den |-> 0])
  ELSE IF a.den = 0 \/ b.den = 0
  THEN Quot(a.num * b.den - b.num * a.den, 0)
  ELSE LET g == GCD(a.den, b.den)
       IN Quot(a.num * (b.den \div g) - b.num * (a.den \div g), (a.den \div g) * b.den)

Plus(a, b) == Minus(a, [num |-> -b.num, den |-> b.den])

\* the transform of the main model, its origin as quotients
ViewTransform(t) == [x |-> FromInt(t.x), y |-> FromInt(t.y), scale10 |-> t.scale10]

\* e.deltaY of a wheel event, in notches of 100 and in long flicks
WheelDeltas == {-100, 100, -6000, 6000}

\* the pointer of a wheel event, relative to the canvas element
WheelPoints == {<<0, 0>>, <<333, 200>>}

\* e.clientX - lastMousePos.x of a pan move
PanDeltas == {<<7, -3>>}

MaxGestures == 3

\* a zoom whose origin follows the requested scale, not the clamped one
handleWheelRequested(t, mouseX, mouseY, deltaY) ==
  LET requested == t.scale10 - deltaY \div 100
      newScale == Min(Max(1, requested), 50)
      ratio == Quot(requested, t.scale10)
  IN [x |-> Minus(FromInt(mouseX), Times(Minus(FromInt(mouseX), t.x), ratio)),
      y |-> Minus(FromInt(mouseY), Times(Minus(FromInt(mouseY), t.y), ratio)),
      scale10 |-> newScale]

\* handleWheel: scaleAmount = -deltaY * 0.001, the scale clamped to [0.1, 5],
\* the origin moved so that the point under the pointer stays
handleWheel(t, mouseX, mouseY, deltaY) ==
  LET newScale == Min(Max(1, t.scale10 - deltaY \div 100), 50)
      ratio == Quot(newScale, t.scale10)
  IN [x |-> Minus(FromInt(mouseX), Times(Minus(FromInt(mouseX), t.x), ratio)),
      y |-> Minus(FromInt(mouseY), Times(Minus(FromInt(mouseY), t.y), ratio)),
      scale10 |-> newScale]

\* a wheel event over the canvas at the point P
WheelAt(P, deltaY) ==
  /\ clock < MaxGestures
  /\ clock' = clock + 1
  /\ transform' = handleWheel(transform, P[1], P[2], deltaY)
  /\ UNCHANGED <<docVars, selVars, activeTool, aspectRatio, projectName, pendingLoads, canvasVars,
                 dragVars, selectedVideoSourceImage, previousToolRef, genVars>>

Wheel == \E P \in WheelPoints, deltaY \in WheelDeltas : WheelAt(P, deltaY)

\* Canvas.handleMouseMove, pan branch
CanvasMouseMovePan ==
  /\ isPanning /\ activeTool = "pan"
  /\ clock < MaxGestures
  /\ clock' = clock + 1
  /\ \E d \in PanDeltas :
       transform' = [transform EXCEPT !.x = Plus(@, FromInt(d[1])), !.y = Plus(@, FromInt(d[2]))]
  /\ UNCHANGED <<docVars, selVars, activeTool, aspectRatio, projectName, pendingLoads, canvasVars,
                 dragVars, selectedVideoSourceImage, previousToolRef, genVars>>

\* project files written elsewhere: any transform can be in them
FileTransforms ==
  { [x |-> FromInt(0), y |-> FromInt(0), scale10 |-> 0],
    [x |-> FromInt(10), y |-> FromInt(-20), scale10 |-> 60],
    [x |-> FromInt(10), y |-> FromInt(-20), scale10 |-> 10] }

ViewFiles == {[ValidFile EXCEPT !.transform = t] : t \in FileTransforms}

loadViewProject == \E f \in ViewFiles : loadProject(f)

\* the state after the mount effect
InitView ==
  /\ Idle
  /\ images = <<>> /\ textObjects = <<>> /\ drawingCanvases = <<>> /\ layerOrder = <<>>
  /\ aspectRatio = "9:16"
  /\ transform = ViewTransform(MountTransform)
  /\ projectName = "Untitled Story"
  /\ applied = NotApplied

ViewNext ==
  \/ Wheel
  \/ CanvasMouseDown
  \/ CanvasMouseMovePan
  \/ CanvasMouseUpOrLeave
  \/ loadViewProject
  \/ handleNewProject

SpecView == InitView /\ [][ViewNext]_vars

(***************************************************************************)
(* Delete and Backspace on a document of two images, a text and a drawing  *)
(* canvas, any of them selected.                                           *)
(***************************************************************************)
KeyText == [id |-> MkId("txt", -6), x |-> 100, y |-> 2000, width |-> 300, height |-> 60]

SubSeqsOf(s) == {SelectSeq(s, LAMBDA e : e \in chosen) : chosen \in SUBSET Range(s)}

InitKeys ==
  /\ clock = 0
  /\ images = <<GenImage, Hero>>
  /\ textObjects = <<KeyText>>
  /\ drawingCanvases = <<PaintedCanvas>>
  /\ layerOrder \in {<<GenImage.id, PaintedCanvas.id, KeyText.id, Hero.id>>,
                     <<KeyText.id, Hero.id, GenImage.id, PaintedCanvas.id>>}
  /\ selectedImageIds \in SubSeqsOf(Ids(images)) \cup {<<Hero.id, GenImage.id>>}
  /\ selectedTextIds \in SubSeqsOf(Ids(textObjects))
  /\ selectedDrawingCanvasIds \in SubSeqsOf(Ids(drawingCanvases))
  /\ activeTool \in {"select", "pan"}
  /\ aspectRatio = "9:16"
  /\ transform = MountTransform
  /\ projectName = "Untitled Story"
  /\ pendingLoads = <<>>
  /\ isPanning = FALSE /\ isSelecting = FALSE
  /\ selectionStart = <<0, 0>> /\ selectionBox = NoBox
  /\ isDraggingForDelete = FALSE /\ isOverTrash = FALSE /\ nodeAction = NoAction
  /\ selectedVideoSourceImage = <<>>
  /\ previousToolRef = "pan"
  /\ apiKey = ""
  /\ isApiKeyModalOpen = FALSE
  /\ activeModel = "gemini-2.5-flash-image"
  /\ isLoading = FALSE /\ loadingMessage = "" /\ errorMessage = "" /\ detailedError = ""
  /\ debugImages = <<>>
  /\ runs = <<>>
  /\ calls = <<>>
  /\ applied = NotApplied

KeysNext ==
  \/ KeyDelete
  \/ TextNodeMouseDown
  \/ NodeMouseUp

SpecKeys == InitKeys /\ [][KeysNext]_vars

\* the same documents and selections, with the Merge button
MergeNext ==
  \/ ContextActionMerge
  \/ TextNodeMouseDown
  \/ NodeMouseUp
  \/ KeyDelete

SpecMerge == InitKeys /\ [][MergeNext]_vars

\* the same documents and selections, with presses on every node and every tool
SelectNext ==
  \/ ToolButtonClick
  \/ ImageNodeMouseDown
  \/ TextNodeMouseDown
  \/ DrawingCanvasNodeMouseDown
  \/ NodeMouseUp

SpecSelect == InitKeys /\ [][SelectNext]_vars

(***************************************************************************)
(* The tool of the keyboard and of the tool buttons, from the mounted      *)
(* application.                                                            *)
(***************************************************************************)
ToolsNext ==
  \/ handleKeyDown
  \/ handleKeyUp
  \/ ToolButtonClick

SpecTools == Init /\ [][ToolsNext]_vars

(***************************************************************************)
(* Resizing through the handles of a node: the resize branches of the      *)
(* mousemove listeners, on quotients (the pointer displacement is divided  *)
(* by the scale, the height of an image by its aspect ratio).              *)
(***************************************************************************)
\* type ResizeHandle, each handle as its characters
ResizeHandles ==
  { <<"t", "l">>, <<"t", "m">>, <<"t", "r">>, <<"m", "l">>, <<"m", "r">>,
    <<"b", "l">>, <<"b", "m">>, <<"b", "r">> }

\* handle.includes(ch)
HandleIncludes(handle, ch) == \E i \in DOMAIN handle : handle[i] = ch

Less(a, b) == a.num * b.den < b.num * a.den

minSize == FromInt(20)

minWidth == FromInt(50)

Box(x, y, width, height) == [x |-> x, y |-> y, width |-> width, height |-> height]

BoxOf(obj) == Box(FromInt(obj.x), FromInt(obj.y), FromInt(obj.width), FromInt(obj.height))

\* ImageNode.handleMouseMove, resize branch
resizeImage(initial, handle, dx, dy) ==
  IF ~HandleIncludes(handle, "m")
  THEN LET requested == IF HandleIncludes(handle, "r")
                        THEN Plus(initial.width, dx) ELSE Minus(initial.width, dx)
           newWidth == IF Less(requested, minSize) THEN minSize ELSE requested
           \* newWidth / (initialImage.width / initialImage.height)
           newHeight == Times(newWidth, Quot(initial.height.num * initial.width.den,
                                             initial.height.den * initial.width.num))
       IN Box(IF HandleIncludes(handle, "l")
              THEN Minus(Plus(initial.x, initial.width), newWidth) ELSE initial.x,
              IF HandleIncludes(handle, "t")
              THEN Minus(Plus(initial.y, initial.height), newHeight) ELSE initial.y,
              newWidth, newHeight)
  ELSE LET width == IF HandleIncludes(handle, "l") THEN Minus(initial.width, dx)
                    ELSE IF HandleIncludes(handle, "r") THEN Plus(initial.width, dx)
                    ELSE initial.width
           x == IF HandleIncludes(handle, "l") THEN Plus(initial.x, dx) ELSE initial.x
           height == IF HandleIncludes(handle, "t") THEN Minus(initial.height, dy)
                     ELSE IF HandleIncludes(handle, "b") THEN Plus(initial.height, dy)
                     ELSE initial.height
           y == IF HandleIncludes(handle, "t") THEN Plus(initial.y, dy) ELSE initial.y
       IN Box(IF Less(width, minSize) /\ HandleIncludes(handle, "l")
              THEN Minus(Plus(initial.x, initial.width), minSize) ELSE x,
              IF Less(height, minSize) /\ HandleIncludes(handle, "t")
              THEN Minus(Plus(initial.y, initial.height), minSize) ELSE y,
              IF Less(width, minSize) THEN minSize ELSE width,
              IF Less(height, minSize) THEN minSize ELSE height)

\* DrawingCanvasNode.handleActionMouseMove, resize branch
resizeCanvas(initial, handle, dx, dy) ==
  LET w1 == IF HandleIncludes(handle, "r") THEN Plus(initial.width, dx) ELSE initial.width
      width == IF HandleIncludes(handle, "l") THEN Minus(w1, dx) ELSE w1
      x == IF HandleIncludes(handle, "l") THEN Plus(initial.x, dx) ELSE initial.x
      h1 == IF HandleIncludes(handle, "b") THEN Plus(initial.height, dy) ELSE initial.height
      height == IF HandleIncludes(handle, "t") THEN Minus(h1, dy) ELSE h1
      y == IF HandleIncludes(handle, "t") THEN Plus(initial.y, dy) ELSE initial.y
  IN Box(IF Less(width, minSize) /\ HandleIncludes(handle, "l")
         THEN Minus(Plus(initial.x, initial.width), minSize) ELSE x,
         IF Less(height, minSize) /\ HandleIncludes(handle, "t")
         THEN Minus(Plus(initial.y, initial.height), minSize) ELSE y,
         IF Less(width, minSize) THEN minSize ELSE width,
         IF Less(height, minSize) THEN minSize ELSE height)

\* TextNode.handleMouseMove, resize branch: the handles are ml and mr, the height is not written
resizeText(initial, handle, dx) ==
  LET left == Minus(initial.width, dx)
      right == Plus(initial.width, dx)
  IN IF handle = <<"m", "l">> /\ Less(minWidth, left)
     THEN Box(Plus(initial.x, dx), initial.y, left, initial.height)
     ELSE IF handle = <<"m", "r">> /\ Less(minWidth, right)
     THEN Box(initial.x, initial.y, right, initial.height)
     ELSE initial

\* the boxes of the objects that are resized: a tall and a wide image, a square canvas
ResizedBoxes ==
  { Box(FromInt(-450), FromInt(-800), FromInt(900), FromInt(1600)),
    Box(FromInt(0), FromInt(0), FromInt(1600), FromInt(900)),
    Box(FromInt(10), FromInt(0), FromInt(BASE_DIMENSION), FromInt(BASE_DIMENSION)) }

\* pointer displacements in canvas units: (e.clientX - initialMouse.x) / scale
Displacements == {FromInt(-2000), FromInt(-90), FromInt(0), Quot(35, 2), FromInt(1590)}

Resized(fn, initial, handle, dx, dy, result) ==
  [fn |-> fn, initial |-> initial, handle |-> handle, dx |-> dx, dy |-> dy, result |-> result]

ImageResize ==
  /\ \E initial \in ResizedBoxes, handle \in ResizeHandles, dx \in Displacements, dy \in Displacements :
       applied' = Resized("resizeImage", initial, handle, dx, dy, resizeImage(initial, handle, dx, dy))
  /\ UNCHANGED <<clock, docVars, selVars, activeTool, viewVars, pendingLoads, canvasVars, dragVars,
                 selectedVideoSourceImage, previousToolRef, apiKey, isApiKeyModalOpen, activeModel,
                 statusVars, runs, calls>>

CanvasResize ==
  /\ \E initial \in ResizedBoxes, handle \in ResizeHandles, dx \in Displacements, dy \in Displacements :
       applied' = Resized("resizeCanvas", initial, handle, dx, dy, resizeCanvas(initial, handle, dx, dy))
  /\ UNCHANGED <<clock, docVars, selVars, activeTool, viewVars, pendingLoads, canvasVars, dragVars,
                 selectedVideoSourceImage, previousToolRef, apiKey, isApiKeyModalOpen, activeModel,
                 statusVars, runs, calls>>

ResizeNext == ImageResize \/ CanvasResize

\* what a resize registered at pointer-down keeps in actionRef: the handle and a copy of the object
CapturedResize(kind, obj, handle) ==
  [type |-> "resize", kind |-> kind, id |-> obj.id, handle |-> handle, initial |-> BoxOf(obj)]

\* the handles of an image are rendered while isSelected && showHandles; the
\* clock advances with every resize gesture, which bounds their number
showHandles(isSelected) == totalSelectedCount <= 1 /\ isSelected

\* ImageNode.handleMouseDown(e, 'resize', handle)
ImageNodeResizeDown ==
  \E i \in DOMAIN images, handle \in ResizeHandles, shiftKey \in BOOLEAN :
    /\ PointerFree
    /\ clock < MaxClock
    /\ clock' = clock + 1
    /\ Includes(selectedImageIds, images[i].id)
    /\ showHandles(Includes(selectedImageIds, images[i].id))
    /\ Commit(handleNodeSelect(Cur, Cur, images[i].id, "image", shiftKey))
    /\ nodeAction' = CapturedResize("image", images[i], handle)
    /\ UNCHANGED <<viewVars, pendingLoads, canvasVars, isDraggingForDelete, isOverTrash,
                   selectedVideoSourceImage, previousToolRef, genVars>>

\* TextNode.handleActionStart(e, 'resize', handle) of a text that is not being edited
TextNodeResizeDown ==
  \E i \in DOMAIN textObjects, handle \in {<<"m", "l">>, <<"m", "r">>}, shiftKey \in BOOLEAN :
    /\ PointerFree
    /\ clock < MaxClock
    /\ clock' = clock + 1
    /\ Includes(selectedTextIds, textObjects[i].id)
    /\ showHandles(Includes(selectedTextIds, textObjects[i].id))
    /\ Commit(handleNodeSelect(Cur, Cur, textObjects[i].id, "text", shiftKey))
    /\ nodeAction' = CapturedResize("text", textObjects[i], handle)
    /\ UNCHANGED <<viewVars, pendingLoads, canvasVars, isDraggingForDelete, isOverTrash,
                   selectedVideoSourceImage, previousToolRef, genVars>>

\* DrawingCanvasNode.handleActionMouseDown(e, 'resize', handle): the handles
\* are rendered while isSelected, and with pen or eraser a handle still resizes
DrawingCanvasNodeResizeDown ==
  \E i \in DOMAIN drawingCanvases, handle \in ResizeHandles, shiftKey \in BOOLEAN :
    /\ PointerFree
    /\ clock < MaxClock
    /\ clock' = clock + 1
    /\ Includes(selectedDrawingCanvasIds, drawingCanvases[i].id)
    /\ Commit(handleNodeSelect(Cur, Cur, drawingCanvases[i].id, "drawingCanvas", shiftKey))
    /\ nodeAction' = CapturedResize("drawingCanvas", drawingCanvases[i], handle)
    /\ UNCHANGED <<viewVars, pendingLoads, canvasVars, isDraggingForDelete, isOverTrash,
                   selectedVideoSourceImage, previousToolRef, genVars>>

\* pointer displacements of a resize, in whole canvas units
ResizeDeltas == {<<-90, -160>>}

IsWhole(box) == box.x.den = 1 /\ box.y.den = 1 /\ box.width.den = 1 /\ box.height.den = 1

\* updateImage(id, { x, y, width, height }) and its like, for a box of whole numbers
SetBox(objs, id, box) ==
  [i \in DOMAIN objs |->
     IF objs[i].id = id
     THEN [objs[i] EXCEPT !.x = box.x.num, !.y = box.y.num,
                          !.width = box.width.num, !.height = box.height.num]
     ELSE objs[i]]

\* the mousemove listener registered at pointer-down, resize branch
NodeResizeMove ==
  \E delta \in ResizeDeltas :
    /\ nodeAction.type = "resize"
    /\ LET dx == FromInt(delta[1])
           dy == FromInt(delta[2])
           box == CASE nodeAction.kind = "image" ->
                         resizeImage(nodeAction.initial, nodeAction.handle, dx, dy)
                    [] nodeAction.kind = "drawingCanvas" ->
                         resizeCanvas(nodeAction.initial, nodeAction.handle, dx, dy)
                    [] nodeAction.kind = "text" ->
                         resizeText(nodeAction.initial, nodeAction.handle, dx)
       IN /\ IsWhole(box)
          /\ images' = IF nodeAction.kind = "image" THEN SetBox(images, nodeAction.id, box) ELSE images
          /\ textObjects' = IF nodeAction.kind = "text"
                            THEN SetBox(textObjects, nodeAction.id, box) ELSE textObjects
          /\ drawingCanvases' = IF nodeAction.kind = "drawingCanvas"
                                THEN SetBox(drawingCanvases, nodeAction.id, box) ELSE drawingCanvases
    /\ UNCHANGED <<clock, layerOrder, selVars, activeTool, viewVars, pendingLoads, canvasVars,
                   dragVars, selectedVideoSourceImage, previousToolRef, genVars>>

\* the mouseup listener registered at pointer-down, after a resize: onDragEnd is not called
NodeResizeUp ==
  /\ nodeAction.type = "resize"
  /\ nodeAction' = NoAction
  /\ UNCHANGED <<clock, docVars, selVars, activeTool, viewVars, pendingLoads, canvasVars,
                 isDraggingForDelete, isOverTrash, selectedVideoSourceImage, previousToolRef, genVars>>

\* selecting and resizing in a document of an image, a text and a drawing canvas
InitHandles ==
  /\ clock = 0
  /\ images = <<GenImage>>
  /\ textObjects = <<KeyText>>
  /\ drawingCanvases = <<PaintedCanvas>>
  /\ layerOrder = <<GenImage.id, PaintedCanvas.id, KeyText.id>>
  /\ selectedImageIds = <<>> /\ selectedTextIds = <<>> /\ selectedDrawingCanvasIds = <<>>
  /\ activeTool = "select"
  /\ aspectRatio = "9:16"
  /\ transform = MountTransform
  /\ projectName = "Untitled Story"
  /\ pendingLoads = <<>>
  /\ isPanning = FALSE /\ isSelecting = FALSE
  /\ selectionStart = <<0, 0>> /\ selectionBox = NoBox
  /\ isDraggingForDelete = FALSE /\ isOverTrash = FALSE /\ nodeAction = NoAction
  /\ selectedVideoSourceImage = <<>>
  /\ previousToolRef = "pan"
  /\ apiKey = ""
  /\ isApiKeyModalOpen = FALSE
  /\ activeModel = "gemini-2.5-flash-image"
  /\ isLoading = FALSE /\ loadingMessage = "" /\ errorMessage = "" /\ detailedError = ""
  /\ debugImages = <<>>
  /\ runs = <<>>
  /\ calls = <<>>
  /\ applied = NotApplied

HandlesNext ==
  \/ ImageNodeMouseDown
  \/ TextNodeMouseDown
  \/ DrawingCanvasNodeMouseDown
  \/ NodeMouseUp
  \/ ImageNodeResizeDown
  \/ TextNodeResizeDown
  \/ DrawingCanvasNodeResizeDown
  \/ NodeResizeMove
  \/ NodeResizeUp

SpecHandles == InitHandles /\ [][HandlesNext]_vars

SpecResize == Init /\ [][ResizeNext]_vars

(***************************************************************************)
(* Clicks on the canvas background and on nodes, with every tool, in a     *)
(* loaded project of one image.                                            *)
(***************************************************************************)
InitClick ==
  /\ clock = 0
  /\ images = <<FileImage>>
  /\ textObjects = <<>>
  /\ drawingCanvases = <<>>
  /\ layerOrder = <<FileImage.id>>
  /\ selectedImageIds = <<>> /\ selectedTextIds = <<>> /\ selectedDrawingCanvasIds = <<>>
  /\ activeTool = "pan"
  /\ aspectRatio = "1:1"
  /\ transform = MountTransform
  /\ projectName = "saved"
  /\ pendingLoads = <<>>
  /\ isPanning = FALSE /\ isSelecting = FALSE
  /\ selectionStart = <<0, 0>> /\ selectionBox = NoBox
  /\ isDraggingForDelete = FALSE /\ isOverTrash = FALSE /\ nodeAction = NoAction
  /\ selectedVideoSourceImage = <<>>
  /\ previousToolRef = "pan"
  /\ apiKey = ""
  /\ isApiKeyModalOpen = FALSE
  /\ activeModel = "gemini-2.5-flash-image"
  /\ isLoading = FALSE /\ loadingMessage = "" /\ errorMessage = "" /\ detailedError = ""
  /\ debugImages = <<>>
  /\ runs = <<>>
  /\ calls = <<>>
  /\ applied = NotApplied

ClickNext ==
  \/ ToolButtonClick
  \/ PaintMask
  \/ DrawStroke
  \/ AddDrawingCanvas
  \/ CanvasMouseDown
  \/ CanvasMouseMoveSelect
  \/ CanvasMouseUpOrLeave
  \/ ImageNodeMouseDown
  \/ TextNodeMouseDown
  \/ DrawingCanvasNodeMouseDown
  \/ NodeMouseUp

SpecClick == InitClick /\ [][ClickNext]_vars

\* the same, with the drag of a node
TrashNext == ClickNext \/ NodeDragMove

SpecTrash == InitClick /\ [][TrashNext]_vars

(***************************************************************************)
(* generateVideo: the long poll of a started video operation.  The loop    *)
(* has no state in the application; its position, the counter of the       *)
(* current polling interval and the status requests made so far are kept   *)
(* in the record of the running call.                                      *)
(***************************************************************************)
maxPollRetries == 3

MaxPolls == 3

\* what a status request can come back with: the operation, done or not, or
\* an error
PollErrors ==
  { ApiError(503, "The service is currently unavailable.", "UNAVAILABLE"),
    ErrorOf("got status: 503 Service Unavailable"),
    ApiError(500, "Internal error encountered.", "INTERNAL"),
    ErrorOf("Failed to fetch"),
    ErrorOf("") }

PollResponses ==
  {[kind |-> "operation", done |-> done, error |-> ErrorOf("")] : done \in BOOLEAN}
  \cup {[kind |-> "throws", done |-> FALSE, error |-> error] : error \in PollErrors}

\* pollError.message || JSON.stringify(pollError)
pollMessage(pollError) == IF pollError.message # "" THEN pollError.message ELSE "{}"

\* a test that allows a retry while the counter is below maxPollRetries
mayRetryPollUpToMax(msg, pollRetryCount) ==
  /\ includes(msg, "503") \/ includes(msg, "UNAVAILABLE")
  /\ pollRetryCount < maxPollRetries

\* (msg.includes('503') || msg.includes("UNAVAILABLE")) && pollRetryCount < maxPollRetries - 1
mayRetryPoll(msg, pollRetryCount) ==
  /\ includes(msg, "503") \/ includes(msg, "UNAVAILABLE")
  /\ pollRetryCount < maxPollRetries - 1

\* the running call: pc is "wait" (the 20 s timer), "poll" (a status request is
\* awaited), "backoff" (the 5 s timer), "done" (the loop was left) or "failed"
\* (the call rejected with error)
VideoLoop(pc, interval, pollRetryCount, requests, error) ==
  [fn |-> "generateVideo", pc |-> pc, interval |-> interval, pollRetryCount |-> pollRetryCount,
   requests |-> requests, error |-> error]

\* while (!operation.done): the place the loop is at after the operation was set
AfterOperation(done) == IF done THEN "done" ELSE "wait"

VideoUnchanged ==
  UNCHANGED <<clock, docVars, selVars, activeTool, viewVars, pendingLoads, canvasVars, dragVars,
              selectedVideoSourceImage, previousToolRef, apiKey, isApiKeyModalOpen, activeModel,
              statusVars, runs, calls>>

\* the 20 s timer of a polling interval fires: the counter starts at zero and
\* the first status request of the interval is made
VideoPollTimer ==
  /\ applied.fn = "generateVideo"
  /\ applied.pc = "wait"
  /\ applied.interval < MaxPolls
  /\ applied' = [applied EXCEPT !.pc = "poll", !.interval = @ + 1, !.pollRetryCount = 0]
  /\ VideoUnchanged

\* getVideosOperation settles
VideoPollSettles ==
  \E response \in PollResponses :
    /\ applied.fn = "generateVideo"
    /\ applied.pc = "poll"
    /\ LET logged == [applied EXCEPT !.requests =
                        Append(@, [interval |-> applied.interval, response |-> response])]
       IN applied' =
            IF response.kind = "operation"
            THEN [logged EXCEPT !.pc = AfterOperation(response.done)]
            ELSE IF mayRetryPoll(pollMessage(response.error), applied.pollRetryCount)
            THEN [logged EXCEPT !.pollRetryCount = @ + 1, !.pc = "backoff"]
            ELSE [logged EXCEPT !.pc = "failed", !.error = response.error]
    /\ VideoUnchanged

\* the 5 s timer fires: continue, to the test of the inner loop
VideoPollBackoffElapsed ==
  /\ applied.fn = "generateVideo"
  /\ applied.pc = "backoff"
  /\ applied' = [applied EXCEPT !.pc = IF applied.pollRetryCount < maxPollRetries THEN "poll"
                                       ELSE AfterOperation(FALSE)]
  /\ VideoUnchanged

\* the video modal is open on the image of the project and generateVideos has
\* returned an operation that is not done
InitVideo ==
  /\ clock = 0
  /\ images = <<FileImage>>
  /\ textObjects = <<>>
  /\ drawingCanvases = <<>>
  /\ layerOrder = <<FileImage.id>>
  /\ selectedImageIds = <<FileImage.id>> /\ selectedTextIds = <<>> /\ selectedDrawingCanvasIds = <<>>
  /\ activeTool = "select"
  /\ aspectRatio = "9:16"
  /\ transform = MountTransform
  /\ projectName = "saved"
  /\ pendingLoads = <<>>
  /\ isPanning = FALSE /\ isSelecting = FALSE
  /\ selectionStart = <<0, 0>> /\ selectionBox = NoBox
  /\ isDraggingForDelete = FALSE /\ isOverTrash = FALSE /\ nodeAction = NoAction
  /\ selectedVideoSourceImage = <<FileImage>>
  /\ previousToolRef = "pan"
  /\ apiKey = "key"
  /\ isApiKeyModalOpen = FALSE
  /\ activeModel = "gemini-2.5-flash-image"
  /\ isLoading = FALSE /\ loadingMessage = "" /\ errorMessage = "" /\ detailedError = ""
  /\ debugImages = <<>>
  /\ runs = <<>>
  /\ calls = <<>>
  /\ applied = VideoLoop("wait", 0, 0, <<>>, ErrorOf(""))

VideoNext ==
  \/ VideoPollTimer
  \/ VideoPollSettles
  \/ VideoPollBackoffElapsed

SpecVideo == InitVideo /\ [][VideoNext]_vars

(***************************************************************************)
(* Layer order and selection (document model).                             *)
(***************************************************************************)
LiveIds == Range(Ids(images)) \cup Range(Ids(textObjects)) \cup Range(Ids(drawingCanvases))

Occurrences(s, e) == Cardinality({i \in DOMAIN s : s[i] = e})

\* C1: in every reachable state the layer order holds the id of every live
\* image, text and drawing canvas exactly once and no id of a non-live
\* object, also after two adds at the same clock value and after the load of
\* a project file without a layerOrder field.
C1_LayerOrderExact ==
  /\ \A id \in LiveIds : Occurrences(layerOrder, id) = 1
  /\ \A i \in DOMAIN layerOrder : layerOrder[i] \in LiveIds

\* the state in which the keydown handler of the canvas has deleted the selection
AfterKeyDelete == CanvasKeyDown(Cur)

SelectedIds ==
  Range(selectedImageIds) \cup Range(selectedTextIds) \cup Range(selectedDrawingCanvasIds)

\* C2: every id in a selection set is the id of a live object of that kind,
\* and deleting the selected objects takes their ids out of the collections,
\* out of all three selection sets and out of the layer order.
C2_SelectionLive ==
  /\ \A id \in Range(selectedImageIds) : id \in Range(Ids(images))
  /\ \A id \in Range(selectedTextIds) : id \in Range(Ids(textObjects))
  /\ \A id \in Range(selectedDrawingCanvasIds) : id \in Range(Ids(drawingCanvases))
  /\ \A id \in SelectedIds :
       /\ id \notin Range(Ids(AfterKeyDelete.images))
       /\ id \notin Range(Ids(AfterKeyDelete.textObjects))
       /\ id \notin Range(Ids(AfterKeyDelete.drawingCanvases))
       /\ id \notin Range(AfterKeyDelete.selectedImageIds)
       /\ id \notin Range(AfterKeyDelete.selectedTextIds)
       /\ id \notin Range(AfterKeyDelete.selectedDrawingCanvasIds)
       /\ id \notin Range(AfterKeyDelete.layerOrder)

\* a multiple selection made by shift-click or marquee, holding objects of two kinds
C2_Witness ==
  /\ Len(selectedImageIds) = 1
  /\ Len(selectedDrawingCanvasIds) = 1
  /\ Len(layerOrder) = 2

(***************************************************************************)
(* Move to front.                                                          *)
(***************************************************************************)
Without(s, id) == SelectSeq(s, LAMBDA item : item # id)

\* C3: moving an id to the front twice in a row gives the layer order that
\* moving it once gives; for an id of the layer order the result ends with
\* that id, keeps the other ids in their order and has the same set of ids.
C3_MoveToFront ==
  applied.fn = "handleMoveToFront" =>
    /\ applied.count = 2 => layerOrder = applied.once
    /\ Includes(applied.prev, applied.id) =>
         /\ Last(applied.once) = applied.id
         /\ Without(applied.once, applied.id) = Without(applied.prev, applied.id)
         /\ Range(applied.once) = Range(applied.prev)

\* an id of the middle of a layer order of three has been moved twice
C3_Witness ==
  /\ applied.fn = "handleMoveToFront"
  /\ applied.count = 2
  /\ Len(applied.prev) = 3
  /\ applied.prev[2] = applied.id
  /\ layerOrder = <<applied.prev[1], applied.prev[3], applied.id>>

(***************************************************************************)
(* The generation sequence.                                                *)
(***************************************************************************)
IsPrefix(s, t) == Len(s) <= Len(t) /\ SubSeq(t, 1, Len(s)) = s

\* C4: at most one generation sequence is in flight, isLoading is true exactly
\* while one is, and while one is in flight no step (a submit included) starts
\* another, replaces its closure, resets the status or drops a recorded call.
C4_SingleSequence ==
  /\ [](Len(runs) <= 1 /\ (isLoading <=> Len(runs) = 1))
  /\ [][isLoading =>
          \/ ~isLoading' /\ runs' = <<>>
          \/ /\ isLoading'
             /\ Len(runs') = 1
             /\ runs'[1].c = runs[1].c
             /\ runs'[1].attempt >= runs[1].attempt
             /\ IsPrefix(calls, calls')
             /\ errorMessage' = errorMessage]_vars

\* a sequence is in its second attempt and the prompt box can be submitted
C4_Witness ==
  /\ isLoading
  /\ Len(runs) = 1
  /\ runs[1].attempt = 2
  /\ PointerFree
  /\ apiKey # ""

\* a step that ends a sequence with its result
SuccessExit == Len(runs') < Len(runs) /\ errorMessage' = ""

\* C5: every step of a generation sequence other than the successful exit of
\* an attempt (the submit, the start of an attempt, a settled first call, the
\* padding, a failure of either call, a backoff, a terminal error) leaves the
\* three collections, the layer order, the three selection sets and the list
\* of images about to be added as they were.
C5_ErrorLeavesDocument ==
  [][(runs' # runs /\ ~SuccessExit) => UNCHANGED <<docVars, selVars, pendingLoads>>]_vars

\* a two-step sequence has ended with retries exhausted in the outpaint call,
\* the masked image still selected
C5_Witness ==
  /\ ~isLoading
  /\ runs = <<>>
  /\ errorMessage # ""
  /\ Len(calls) = 2 * maxRetries
  /\ calls[Len(calls)].prompt = outpaintingPrompt
  /\ selectedImageIds = <<GenImage.id>>
  /\ pendingLoads = <<>>

\* the single edit call of a single-step attempt returns an image
SingleStepSucceeds ==
  /\ Len(runs) = 1
  /\ runs[1].pc = "editImage"
  /\ runs[1].mode = "single"
  /\ SuccessExit

\* the image of a generation result has loaded
ResultArrives ==
  /\ Len(pendingLoads') < Len(pendingLoads)
  /\ Len(images') = Len(images) + 1
  /\ Last(images').classification = "result"

CallsOfAttempt(cs, attempt) == SelectSeq(cs, LAMBDA call : call.attempt = attempt)

\* C6: when the edit call of the single-step path succeeds, the attempt has
\* made exactly one call (an edit call with the submitted prompt and the one
\* selected item), one image of classification 'result' with the submitted
\* prompt and the target aspect ratio is handed to the image loader, the masks
\* of the images selected at submit are cleared, the active tool is 'select'
\* and isLoading is false; when the image has loaded it is the last image, the
\* last element of the layer order and the only selected object.
C6_SingleStepSuccess ==
  /\ [][SingleStepSucceeds =>
          LET c == runs[1].c
              mine == CallsOfAttempt(calls', runs[1].attempt)
          IN /\ calls' = calls
             /\ Len(mine) = 1
             /\ mine[1].fn = "editImage"
             /\ mine[1].prompt = c.prompt
             /\ Len(mine[1].refs) = 1
             /\ runs[1].attempt = 1 => Len(calls') = 1
             /\ Len(pendingLoads') = Len(pendingLoads) + 1
             /\ SubSeq(pendingLoads', 1, Len(pendingLoads)) = pendingLoads
             /\ Last(pendingLoads').classification = "result"
             /\ Last(pendingLoads').prompt = c.prompt
             /\ Last(pendingLoads').targetAspectRatio = c.aspectRatio
             /\ Len(images') = Len(images)
             /\ \A k \in DOMAIN images' :
                  /\ images'[k].id = images[k].id
                  /\ Includes(c.selectedImageIds, images'[k].id) => images'[k].maskSrc = ""
             /\ selectedImageIds' = <<>>
             /\ selectedDrawingCanvasIds' = <<>>
             /\ activeTool' = "select"
             /\ ~isLoading'
             /\ UNCHANGED <<textObjects, drawingCanvases, layerOrder>>]_vars
  /\ [][ResultArrives =>
          LET new == Last(images')
          IN /\ images' = Append(images, new)
             /\ \E i \in DOMAIN pendingLoads :
                  /\ new.prompt = pendingLoads[i].prompt
                  /\ new.targetAspectRatio = pendingLoads[i].targetAspectRatio
             /\ layerOrder' = Append(layerOrder, new.id)
             /\ selectedImageIds' = <<new.id>>
             /\ selectedTextIds' = <<>>
             /\ selectedDrawingCanvasIds' = <<>>
             /\ activeTool' = "select"
             /\ UNCHANGED <<isLoading, textObjects, drawingCanvases>>]_vars

\* the result of a first single-step attempt on a masked image has arrived
C6_Witness ==
  /\ ~isLoading
  /\ Len(calls) = 1
  /\ calls[1].fn = "editImage"
  /\ calls[1].mask
  /\ calls[1].refs = <<GenImage.id>>
  /\ Len(images) >= 2
  /\ images[1].id = GenImage.id
  /\ images[1].maskSrc = ""
  /\ Last(images).classification = "result"
  /\ Last(images).prompt = "add a hat"
  /\ Last(layerOrder) = Last(images).id
  /\ selectedImageIds = <<Last(images).id>>
  /\ selectedTextIds = <<>>
  /\ selectedDrawingCanvasIds = <<>>
  /\ activeTool = "select"
  /\ pendingLoads = <<>>

\* the outpaint call of a two-step attempt on the selection returns an image
TwoStepSucceeds ==
  /\ Len(runs) = 1
  /\ runs[1].pc = "outpaint"
  /\ runs[1].mode = "two"
  /\ SuccessExit

\* a step in which the outpaint call of a two-step attempt is made
OutpaintStarts ==
  /\ Len(runs) = 1
  /\ Len(runs') = 1
  /\ runs[1].mode = "two"
  /\ runs'[1].pc = "outpaint"
  /\ runs[1].pc # "outpaint"

\* C7: in a two-step attempt the outpaint call is made only after the first
\* edit call has returned and its image has been padded; when the outpaint
\* call succeeds the attempt has made exactly two calls, first the edit call
\* with the submitted prompt and all packed references, then the edit call with
\* the outpainting prompt and the padded image as its only reference; the log
\* holds the reference entries of that attempt followed by exactly the three
\* artifacts (initial edit, padded, final) in that order and nothing of
\* earlier attempts; exactly one 'result' image is handed to the image loader.
C7_TwoStepSuccess ==
  /\ [][OutpaintStarts =>
          /\ runs[1].pc = "createPaddedImage"
          /\ Last(debugImages).label = "Step 1: Initial Edit"
          /\ Len(calls') = Len(calls) + 1
          /\ Last(calls).fn = "editImage"
          /\ Last(calls).attempt = runs[1].attempt
          /\ Last(calls).prompt = runs[1].c.prompt]_vars
  /\ [][TwoStepSucceeds =>
          LET c == runs[1].c
              items == editableItems(c)
              mine == CallsOfAttempt(calls', runs[1].attempt)
          IN /\ Len(items) >= 2 \/ ~isMatchingAspectRatio(items[1], c.aspectRatio)
             /\ calls' = calls
             /\ Len(mine) = 2
             /\ mine[1].fn = "editImage"
             /\ mine[1].prompt = c.prompt
             /\ mine[1].refs = Ids(validReferenceData(items))
             /\ ~mine[1].mask
             /\ mine[2].fn = "editImage"
             /\ mine[2].prompt = outpaintingPrompt
             /\ Len(mine[2].refs) = 1
             /\ mine[2].refs[1][1] = "padded"
             /\ Len(debugImages') = Len(items) + 3
             /\ SubSeq(debugImages', 1, Len(items)) = ReferenceLabels(items)
             /\ [k \in 1..3 |-> debugImages'[Len(items) + k].label]
                  = <<"Step 1: Initial Edit", "Step 2: Padded for Outpainting", "Step 3: Final Result">>
             /\ Len(pendingLoads') = Len(pendingLoads) + 1
             /\ SubSeq(pendingLoads', 1, Len(pendingLoads)) = pendingLoads
             /\ Last(pendingLoads').classification = "result"
             /\ Len(images') = Len(images)]_vars

\* a two-step sequence on three selected items has succeeded in its second
\* attempt after the outpaint call of the first attempt failed
C7_Witness ==
  /\ ~isLoading
  /\ errorMessage = ""
  /\ Len(calls) = 4
  /\ calls[2].prompt = outpaintingPrompt
  /\ calls[2].attempt = 1
  /\ calls[4].prompt = outpaintingPrompt
  /\ calls[4].attempt = 2
  /\ Len(calls[3].refs) = 2
  /\ Len(debugImages) = 6
  /\ debugImages[6].label = "Step 3: Final Result"
  /\ Len(pendingLoads) = 1

(***************************************************************************)
(* The path and the references of an attempt.                              *)
(***************************************************************************)
\* the selected images and canvases of a closure, as a set of
\* <<id, x, width, height, source>>
SelectedOf(c) ==
  {<<img.id, img.x, img.width, img.height, img.src>> :
     img \in {o \in Range(c.images) : Includes(c.selectedImageIds, o.id)}}
  \cup {<<cv.id, cv.x, cv.width, cv.height, cv.drawingSrc>> :
          cv \in {o \in Range(c.drawingCanvases) : Includes(c.selectedDrawingCanvasIds, o.id)}}

WithData(c) == {o \in SelectedOf(c) : o[5] # ""}

\* |w / h - tw / th| < 1/100
Within100th(w, h, tw, th) == Abs(w * th - tw * h) * 100 < h * th

OneMatching(c) ==
  /\ Cardinality(SelectedOf(c)) = 1
  /\ \A o \in SelectedOf(c) : Within100th(o[3], o[4], RatioW(c.aspectRatio), RatioH(c.aspectRatio))

\* the first attempt of the only sequence has started
Started == Len(runs) = 1 /\ runs[1].attempt = 1 /\ runs[1].pc # "attempt"

\* C8 as stated: with a non-empty selection an attempt takes the single-step
\* path if exactly one item is selected and its ratio is within 0.01 of the
\* target, and the two-step path otherwise.
C8_PathAsStated ==
  (Started /\ SelectedOf(runs[1].c) # {}) =>
    /\ runs[1].pc = "editImage"
    /\ runs[1].mode = IF OneMatching(runs[1].c) THEN "single" ELSE "two"

\* C8: with a selection in which at least one item has image data an attempt
\* takes the single-step path if exactly one item is selected and its ratio is
\* within 0.01 of the target, and the two-step path otherwise; 900 by 1600
\* matches 9:16 and not 1:1.  With a non-empty selection in which no item has
\* image data (unpainted drawing canvases) the attempt takes neither path: it
\* fails before any call is made.
C8_PathOfAttempt ==
  (Started /\ SelectedOf(runs[1].c) # {}) =>
    LET c == runs[1].c
    IN /\ WithData(c) # {} =>
            /\ runs[1].pc = "editImage"
            /\ runs[1].mode = IF OneMatching(c) THEN "single" ELSE "two"
            /\ Len(calls) = 1
       /\ WithData(c) = {} =>
            /\ runs[1].pc = "backoff"
            /\ calls = <<>>
            /\ includes(detailedError, "Selected items have no data.")
       /\ \A o \in SelectedOf(c) :
            (Cardinality(SelectedOf(c)) = 1 /\ o[3] = 900 /\ o[4] = 1600) =>
              /\ c.aspectRatio = "9:16" => runs[1].mode = "single"
              /\ c.aspectRatio = "1:1" => runs[1].mode = "two"

\* the 900 by 1600 image alone has been submitted at 1:1 and goes the two-step path
C8_Witness ==
  /\ Started
  /\ runs[1].c.selectedImageIds = <<MkId("img", -3)>>
  /\ runs[1].c.selectedDrawingCanvasIds = <<>>
  /\ runs[1].c.images[1].width = 900
  /\ runs[1].c.images[1].height = 1600
  /\ runs[1].c.aspectRatio = "1:1"
  /\ runs[1].mode = "two"
  /\ Len(calls) = 1

Ascending(refs, objects) ==
  \A i \in DOMAIN refs, j \in DOMAIN refs :
    i < j => \A o \in objects, q \in objects : (o[1] = refs[i] /\ q[1] = refs[j]) => o[2] <= q[2]

\* C9 as stated: the references of the call are the selected items in
\* ascending order of x.
C9_PackedAsStated ==
  (Started /\ runs[1].pc = "editImage") =>
    LET all == SelectedOf(runs[1].c)
    IN /\ Len(calls[1].refs) = Cardinality(all)
       /\ Range(calls[1].refs) = {o[1] : o \in all}
       /\ Ascending(calls[1].refs, all)

\* C9: the references of the call are the selected items that have image data,
\* images and canvases merged, each once, in ascending order of x; the log has
\* one entry per selected item (with or without data), entry i labelled
\* "Reference i", in ascending order of x; items at x = 50, 10, 30 are sent in
\* the order 10, 30, 50 and logged as Reference 1, 2, 3.
C9_PackedReferences ==
  (Started /\ runs[1].pc = "editImage") =>
    LET c == runs[1].c
        all == SelectedOf(c)
        refs == calls[1].refs
    IN /\ Len(refs) = Cardinality(WithData(c))
       /\ Range(refs) = {o[1] : o \in WithData(c)}
       /\ Ascending(refs, all)
       /\ Len(debugImages) = Cardinality(all)
       /\ \A i \in DOMAIN debugImages :
            /\ SubSeq(debugImages[i].label, 1, 11) = "Reference " \o Digit(i)
            /\ \E o \in all : o[5] = debugImages[i].src
            /\ \A j \in DOMAIN debugImages :
                 i < j => \A o \in all, q \in all :
                            (o[5] = debugImages[i].src /\ q[5] = debugImages[j].src) => o[2] <= q[2]
       /\ (c.images[1].x = 50 /\ c.images[2].x = 10 /\ c.drawingCanvases[1].x = 30
           /\ Cardinality(WithData(c)) = 3) =>
            /\ refs = <<MkId("img", -2), MkId("canvas", -1), MkId("img", -3)>>
            /\ [i \in 1..3 |-> debugImages[i].src] = <<"b", "c", "a">>

\* the three items at x = 50, 10, 30, all with data, have been sent
C9_Witness ==
  /\ Started
  /\ runs[1].pc = "editImage"
  /\ runs[1].c.images[1].x = 50
  /\ runs[1].c.images[2].x = 10
  /\ runs[1].c.drawingCanvases[1].x = 30
  /\ calls[1].refs = <<MkId("img", -2), MkId("canvas", -1), MkId("img", -3)>>
  /\ debugImages[3].label = "Reference 3 (image)"
  /\ debugImages[3].src = "a"

(***************************************************************************)
(* Safety blocks.                                                          *)
(***************************************************************************)
\* what the catch block shows of an edit call that ended with a safety finish reason
SafetyDetails ==
  {"Reason: " \o editImage(Candidate(r, FALSE, <<0, 0>>)).error.message : r \in SafetyFinishReasons}

\* an edit call of attempt 1 settles with a safety finish reason
SafetyAtFirstAttempt ==
  /\ Len(runs) = 1
  /\ runs[1].attempt = 1
  /\ runs[1].pc \in {"editImage", "outpaint"}
  /\ runs' # runs
  /\ detailedError' \in SafetyDetails

\* C10: when an edit call of attempt 1 ends with finish reason SAFETY,
\* PROHIBITED_CONTENT, BLOCKLIST or RECITATION, the sequence is over in that
\* step: no sequence is left to make a call or to wait, no call is added, the
\* safety message is the error message and isLoading is false.
C10_SafetyStops ==
  [][SafetyAtFirstAttempt =>
       /\ runs' = <<>>
       /\ calls' = calls
       /\ \A k \in DOMAIN calls' : calls'[k].attempt = 1
       /\ errorMessage' = SafetyMessage
       /\ ~isLoading'
       /\ loadingMessage' = ""]_vars

\* the first edit call of a sequence ended with finish reason BLOCKLIST
C10_Witness ==
  /\ runs = <<>>
  /\ ~isLoading
  /\ Len(calls) = 1
  /\ calls[1].attempt = 1
  /\ errorMessage = SafetyMessage
  /\ detailedError = "Reason: BLOCKLIST: The request was blocked by blocklist."

(***************************************************************************)
(* Retries.                                                                *)
(***************************************************************************)
\* the failure carries status code 503
Carries503(error) == (error.hasJson /\ error.code = 503) \/ includes(error.message, "503")

\* the catch block has run on the drawn error
Caught == applied.fn = "catch" /\ (runs = <<>> \/ runs[1].pc \notin CatchPcs)

Retrying == Len(runs) = 1 /\ runs[1].pc = "backoff"

\* C11: a failure that carries status code 503 is retried while attempts
\* remain (attempts 1 and 2 of 3) with a wait of min(1000 * 2^(attempt-1), 5000)
\* ms, which is longer at attempt 2 than at attempt 1 and never above 5000; at
\* the last attempt it ends the sequence with the overload message.
C11_OverloadRetried ==
  (Caught /\ Carries503(applied.error)) =>
    /\ Retrying =>
         /\ runs[1].attempt < maxRetries
         /\ runs[1].delay = (IF runs[1].attempt = 1 THEN 1000 ELSE 2000)
         /\ runs[1].delay <= 5000
         /\ isLoading
    /\ runs = <<>> => errorMessage = OverloadedMessage /\ ~isLoading
    /\ (Len(runs) = 1 /\ runs[1].pc = "attempt") => runs[1].attempt \in 2..maxRetries

\* a 503 failure of the second attempt waits two seconds
C11_Witness ==
  /\ Caught
  /\ Carries503(applied.error)
  /\ Retrying
  /\ runs[1].attempt = 2
  /\ runs[1].delay = 2000

\* C12: at every attempt at which a retry happens the wait chosen for an
\* overload failure is at most the wait for an unclassified failure, which is
\* at most the wait for a quota failure (5000 ms); the wait of the run is the
\* one of the class of its failure.
C12_DelayOrder ==
  (Caught /\ Retrying) =>
    LET a == runs[1].attempt
        mine == ClassOf[applied.error]
    IN /\ runs[1].delay = (IF mine.is503 THEN (IF a = 1 THEN 1000 ELSE 2000)
                           ELSE IF mine.is429 THEN 5000 ELSE 2000)
       /\ \A overload \in CaughtErrors, plain \in CaughtErrors, quota \in CaughtErrors :
            ( /\ ClassOf[overload].is503
              /\ ~ClassOf[plain].is503 /\ ~ClassOf[plain].is429
              /\ ~ClassOf[quota].is503 /\ ClassOf[quota].is429 ) =>
              /\ RetryDelay(ClassOf[overload], a) <= RetryDelay(ClassOf[plain], a)
              /\ RetryDelay(ClassOf[plain], a) <= RetryDelay(ClassOf[quota], a)

\* a quota failure of the second attempt waits five seconds
C12_Witness ==
  /\ Caught
  /\ Retrying
  /\ runs[1].attempt = 2
  /\ applied.error.hasJson
  /\ applied.error.code = 429
  /\ runs[1].delay = 5000

(***************************************************************************)
(* Termination of a sequence.                                              *)
(***************************************************************************)
\* a call or the padding of the last attempt fails
LastAttemptFails ==
  /\ Len(runs) = 1
  /\ runs[1].attempt = maxRetries
  /\ runs' = <<>>
  /\ ~SuccessExit

\* C13: if every awaited call settles and every backoff timer fires, a sequence
\* that has started ends: isLoading becomes false; a sequence never is in an
\* attempt above 3; the step that ends it (success or error) ends it at once,
\* empties the retry status message and sets isLoading to false; no attempt
\* follows a successful one (the step that delivers a result ends the
\* sequence); the failure of the last attempt sets an error message.
C13_SequenceTerminates ==
  /\ isLoading ~> ~isLoading
  /\ [](\A i \in DOMAIN runs : runs[i].attempt \in 1..maxRetries)
  /\ [][(isLoading /\ Len(runs') < Len(runs)) =>
          /\ ~isLoading'
          /\ loadingMessage' = ""
          /\ runs' = <<>>]_vars
  /\ [][Len(pendingLoads') > Len(pendingLoads) => (runs' = <<>> /\ ~isLoading')]_vars
  /\ [][LastAttemptFails => errorMessage' # ""]_vars

\* a sequence has ended after the outpaint call failed in each of its three attempts
C13_Witness ==
  /\ ~isLoading
  /\ runs = <<>>
  /\ Len(calls) = 2 * maxRetries
  /\ calls[Len(calls)].attempt = maxRetries
  /\ errorMessage # ""
  /\ loadingMessage = ""

(***************************************************************************)
(* The credential guard.                                                   *)
(***************************************************************************)
\* the prompt has a character that is not a blank
NonBlank(prompt) == trim(prompt) # ""

\* C14: a submit of a prompt with content while no key is stored makes no
\* service call and starts no sequence, leaves isLoading false, leaves the
\* collections, the layer order and the three selection sets as they were, and
\* has the key modal open; such a submit is possible whenever no key is stored.
C14_NoKeyOpensModal ==
  /\ [][\A prompt \in Prompts :
          (NonBlank(prompt) /\ apiKey = "" /\ Submit(prompt)) =>
             /\ isApiKeyModalOpen'
             /\ calls' = calls /\ calls' = <<>>
             /\ runs' = runs /\ runs' = <<>>
             /\ ~isLoading /\ ~isLoading'
             /\ UNCHANGED <<docVars, selVars>>]_vars
  /\ [](apiKey = "" => \E prompt \in Prompts : NonBlank(prompt) /\ ENABLED Submit(prompt))

\* the modal is open after a submit without a key, an image and a canvas selected
C14_Witness ==
  /\ isApiKeyModalOpen
  /\ apiKey = ""
  /\ selectedImageIds # <<>>
  /\ selectedDrawingCanvasIds # <<>>
  /\ calls = <<>>
  /\ ~isLoading

(***************************************************************************)
(* Save, then load.                                                        *)
(***************************************************************************)
SourceFields == {"src", "modelSheetSrc", "videoSrc", "maskSrc", "drawingSrc"}

\* the bytes a source string stands for
PayloadBytes(v) ==
  IF v.kind = "data" THEN Base64Decode(v.data)
  ELSE IF v.kind = "blob" THEN v.bytes
  ELSE <<>>

\* both absent in the same way, or both present with the same bytes
SameSource(a, b) ==
  IF Truthy(a) /\ Truthy(b) THEN PayloadBytes(a) = PayloadBytes(b)
  ELSE a.kind = b.kind

SamePoses(a, b) ==
  IF a.kind = "undefined" \/ b.kind = "undefined" THEN a.kind = b.kind
  ELSE DOMAIN a.slots = DOMAIN b.slots /\ \A n \in DOMAIN a.slots : SameSource(a.slots[n], b.slots[n])

PlainFields(obj) == DOMAIN obj \ (SourceFields \cup {"poses"})

\* two objects are the same but for the encoding of their payloads
SameObject(a, b) ==
  /\ PlainFields(a) = PlainFields(b)
  /\ \A k \in PlainFields(a) : a[k] = b[k]
  /\ \A k \in SourceFields : SameSource(Get(a, k), Get(b, k))
  /\ SamePoses(Get(a, "poses"), Get(b, "poses"))

SameObjects(as, bs) == Len(as) = Len(bs) /\ \A i \in DOMAIN as : SameObject(as[i], bs[i])

\* C15: after a project was saved and the saved archive loaded, the images,
\* texts and drawing canvases are those of the saved document, every payload
\* (src, maskSrc, modelSheetSrc, poses, videoSrc, drawingSrc) with the bytes it
\* had, and layer order, aspect ratio, transform and project name are equal.
C15_RoundTrip ==
  applied.fn = "loadProjectFromFile" =>
    /\ SameObjects(images, applied.saved.images)
    /\ SameObjects(textObjects, applied.saved.textObjects)
    /\ SameObjects(drawingCanvases, applied.saved.drawingCanvases)
    /\ layerOrder = applied.saved.layerOrder
    /\ aspectRatio = applied.saved.aspectRatio
    /\ transform = applied.saved.transform
    /\ projectName = applied.saved.projectName

(***************************************************************************)
(* A load that fails.                                                      *)
(***************************************************************************)
\* the archive has no project.json, or its JSON does not parse, or the JSON
\* lacks one of the arrays the load maps over
Malformed(f) == ~f.hasProjectJson \/ ~f.parses \/ ~f.hasImages \/ ~f.hasDrawingCanvases

\* C16: a load of a malformed archive leaves the three collections, the layer
\* order, aspect ratio, transform, project name and the three selection sets as
\* they were and shows the alert "Failed to load project."; a load of any
\* other archive installs all three collections of the file, its project name
\* and an empty selection, and shows no alert: no load stops half way.
C16_FailedLoadKeepsDocument ==
  [][\A f \in ProjectFiles :
       loadProject(f) =>
         IF Malformed(f)
         THEN /\ UNCHANGED <<docVars, viewVars, selVars>>
              /\ applied' = LoadAlert
         ELSE /\ images' = f.images
              /\ textObjects' = f.textObjects
              /\ drawingCanvases' = f.drawingCanvases
              /\ projectName' = f.projectName
              /\ selectedImageIds' = <<>> /\ selectedTextIds' = <<>>
              /\ selectedDrawingCanvasIds' = <<>>
              /\ applied' = NotApplied]_vars

\* the alert is up over a document that has a selected image
C16_Witness ==
  /\ applied = LoadAlert
  /\ Len(images) > 0
  /\ Len(selectedImageIds) > 0
  /\ Len(drawingCanvases) = 2

(***************************************************************************)
(* Zoom and the range of the scale.                                        *)
(***************************************************************************)
\* the canvas-space coordinate under the screen coordinate p: (p - origin) / scale
CanvasCoord(p, origin, scale10) == Times(Minus(FromInt(p), origin), Quot(10, scale10))

\* C17: a wheel zoom at the screen point P keeps the canvas-space point under
\* P: (P - origin') / scale' = (P - origin) / scale in both coordinates, and
\* origin' = P - (P - origin) * scale' / scale, also when the requested scale
\* was clamped to 0.1 or to 5; for every transform with a scale other than 0
\* (with scale 0 no canvas point is under P).
C17_ZoomKeepsAnchor ==
  [][\A P \in WheelPoints, deltaY \in WheelDeltas :
       (WheelAt(P, deltaY) /\ transform.scale10 # 0) =>
          /\ CanvasCoord(P[1], transform'.x, transform'.scale10)
               = CanvasCoord(P[1], transform.x, transform.scale10)
          /\ CanvasCoord(P[2], transform'.y, transform'.scale10)
               = CanvasCoord(P[2], transform.y, transform.scale10)
          /\ transform'.x = Minus(FromInt(P[1]),
                                  Times(Minus(FromInt(P[1]), transform.x),
                                        Quot(transform'.scale10, transform.scale10)))
          /\ transform'.y = Minus(FromInt(P[2]),
                                  Times(Minus(FromInt(P[2]), transform.y),
                                        Quot(transform'.scale10, transform.scale10)))
          /\ transform'.scale10 = Min(Max(1, transform.scale10 - deltaY \div 100), 50)]_vars

\* a zoom was clamped at 5 and left an origin that is no whole number
C17_Witness ==
  /\ transform.scale10 = 50
  /\ transform.x.den > 1
  /\ clock >= 1

\* C18: in every reachable state the scale is above 0 and within [0.1, 5],
\* whatever wrote the transform: the mount effect, a zoom, a pan, the load of
\* a project, a new project.
C18_ScaleInRange ==
  /\ transform.scale10 > 0
  /\ transform.scale10 \in 1..50

(***************************************************************************)
(* Delete and Backspace.                                                   *)
(***************************************************************************)
Unselected(objects, selected) == SelectSeq(objects, LAMBDA o : ~Includes(selected, o.id))

\* C19: Delete or Backspace with the focus outside a text input removes the
\* selected images, texts and drawing canvases from their collections and
\* their ids from the layer order, keeps every other object as it was and the
\* remaining layer ids in their order, and empties the three selection sets;
\* with the focus in a text input the key changes nothing.
C19_DeleteKey ==
  [][/\ KeyPress(FALSE) =>
          /\ images' = Unselected(images, selectedImageIds)
          /\ textObjects' = Unselected(textObjects, selectedTextIds)
          /\ drawingCanvases' = Unselected(drawingCanvases, selectedDrawingCanvasIds)
          /\ layerOrder' = SelectSeq(layerOrder, LAMBDA id : id \notin SelectedIds)
          /\ \A id \in SelectedIds : id \notin LiveIds' /\ ~Includes(layerOrder', id)
          /\ selectedImageIds' = <<>> /\ selectedTextIds' = <<>>
          /\ selectedDrawingCanvasIds' = <<>>
     /\ KeyPress(TRUE) => UNCHANGED vars]_vars

\* one image and the text were deleted together; the other image and the
\* canvas are left, their layer ids in the order they had
C19_Witness ==
  /\ images = <<Hero>>
  /\ textObjects = <<>>
  /\ drawingCanvases = <<PaintedCanvas>>
  /\ layerOrder = <<PaintedCanvas.id, Hero.id>>
  /\ selectedImageIds = <<>> /\ selectedTextIds = <<>> /\ selectedDrawingCanvasIds = <<>>

(***************************************************************************)
(* The model of a call.                                                    *)
(***************************************************************************)
TextToImageModel == "imagen-4.0-generate-001"

\* C20: every generateImage call is made with the text-to-image model
\* imagen-4.0-generate-001, for either value of the model toggle, and is made
\* only by a sequence with nothing selected; of the calls of a sequence with
\* nothing selected none depends on the toggle (the entity path edits with
\* gemini-3-pro-image-preview); the edit calls of a sequence with a selection
\* are made with the model of the toggle.
C20_GenerationModel ==
  /\ \A k \in DOMAIN calls :
       calls[k].fn = "generateImage" => calls[k].model = TextToImageModel
  /\ \A i \in DOMAIN runs :
       LET c == runs[i].c
           nothingSelected == Len(editableItems(c)) = 0
       IN \A k \in DOMAIN calls :
            /\ calls[k].fn = "generateImage" => nothingSelected
            /\ (calls[k].fn = "editImage" /\ nothingSelected) =>
                  calls[k].model = "gemini-3-pro-image-preview"
            /\ (calls[k].fn = "editImage" /\ ~nothingSelected) =>
                  calls[k].model = c.activeModel

\* the toggle is on Gemini 3 Pro and the generate call of a sequence with
\* nothing selected is in flight, made with Imagen 4
C20_Witness ==
  /\ Len(runs) = 1
  /\ runs[1].pc = "generateImage"
  /\ runs[1].c.activeModel = "gemini-3-pro-image-preview"
  /\ runs[1].c.selectedImageIds = <<>> /\ runs[1].c.selectedDrawingCanvasIds = <<>>
  /\ calls[Len(calls)].fn = "generateImage"
  /\ calls[Len(calls)].model = TextToImageModel

(***************************************************************************)
(* The tool keys.                                                          *)
(***************************************************************************)
\* the last key event was a press of the space key outside text inputs, not an
\* auto-repeat, and the tool is still the one the press left
SpaceHeld ==
  /\ applied.fn = "keydown" /\ applied.key = "Space"
  /\ ~applied.focusInText /\ ~applied.repeat
  /\ activeTool = "pan"

\* C21: a press of the space key outside text inputs makes the tool 'pan', and
\* the release that follows it restores the tool T that was active before the
\* press, for every T, 'pan' included, after any earlier tool changes and
\* hold/release cycles.
C21_SpaceHoldRestores ==
  /\ [][\A ctrlKey \in BOOLEAN : KeyDown("Space", FALSE, FALSE, ctrlKey) => activeTool' = "pan"]_vars
  /\ [][(SpaceHeld /\ KeyUp("Space", FALSE)) => activeTool' = applied.tool]_vars

\* C22: a key event with focus in a text input or textarea, press or release,
\* leaves the tool as it was.
C22_KeysIgnoredInText ==
  /\ [][\A k \in ToolKeys \cup HoldKeys, repeat \in BOOLEAN, ctrlKey \in BOOLEAN :
          KeyDown(k, TRUE, repeat, ctrlKey) => activeTool' = activeTool]_vars
  /\ [][\A k \in HoldKeys : KeyUp(k, TRUE) => activeTool' = activeTool]_vars

(***************************************************************************)
(* The tool after a click.                                                 *)
(***************************************************************************)
\* C23: once the event that places an object has been processed the tool is
\* 'select': a background click with the text tool that adds a text object, and
\* the new-drawing-canvas action that adds a canvas.
C23_SelectAfterPlacing ==
  /\ [][(CanvasMouseDown /\ Len(textObjects') = Len(textObjects) + 1) => activeTool' = "select"]_vars
  /\ [][AddDrawingCanvas => activeTool' = "select"]_vars

\* C24: a background click with text, pen or eraser makes the tool 'pan', with
\* pan or select it leaves the tool; every background click empties the three
\* selections and clears the mask of every image that was selected.
C24_BackgroundClick ==
  [][CanvasMouseDown =>
       /\ activeTool' = IF activeTool \in {"text", "pen", "eraser"} THEN "pan" ELSE activeTool
       /\ selectedImageIds' = <<>> /\ selectedTextIds' = <<>> /\ selectedDrawingCanvasIds' = <<>>
       /\ Len(images') = Len(images)
       /\ \A i \in DOMAIN images :
            Includes(selectedImageIds, images[i].id) => images'[i].maskSrc = ""]_vars

\* the text tool placed a text on the background: the text is there, unselected,
\* and the tool is 'pan'
C24_Witness ==
  /\ Len(textObjects) = 1
  /\ activeTool = "pan"
  /\ selectedImageIds = <<>> /\ selectedTextIds = <<>> /\ selectedDrawingCanvasIds = <<>>
  /\ \A i \in DOMAIN images : images[i].maskSrc = ""
  /\ PointerFree

(***************************************************************************)
(* Resize.                                                                 *)
(***************************************************************************)
ResizeApplied == applied.fn \in {"resizeImage", "resizeCanvas"}

\* C26: an image or drawing canvas resized through any of the eight handles by
\* any displacement is at least 20 wide and 20 high, and when a floor is
\* reached on a handle that moves the origin (left or top), the opposite edge
\* (right or bottom) is where it was before the resize.
C26_SizeFloor ==
  ResizeApplied =>
    LET a == applied.initial
        r == applied.result
    IN /\ ~Less(r.width, minSize)
       /\ ~Less(r.height, minSize)
       /\ (r.width = minSize /\ HandleIncludes(applied.handle, "l")) =>
             Plus(r.x, r.width) = Plus(a.x, a.width)
       /\ (r.height = minSize /\ HandleIncludes(applied.handle, "t")) =>
             Plus(r.y, r.height) = Plus(a.y, a.height)

\* C27: a resize of an image or drawing canvas through a corner handle keeps
\* width / height at its value from the start of the resize; a resize through
\* an edge-midpoint handle changes only the dimension of that edge.
C27_CornerKeepsRatio ==
  ResizeApplied =>
    LET a == applied.initial
        r == applied.result
        h == applied.handle
    IN /\ ~HandleIncludes(h, "m") => Times(r.width, a.height) = Times(r.height, a.width)
       /\ h \in {<<"m", "l">>, <<"m", "r">>} => (r.height = a.height /\ r.y = a.y)
       /\ h \in {<<"t", "m">>, <<"b", "m">>} => (r.width = a.width /\ r.x = a.x)

\* the widths and heights of all objects
Sizes ==
  <<[i \in DOMAIN images |-> <<images[i].width, images[i].height>>],
    [i \in DOMAIN textObjects |-> <<textObjects[i].width, textObjects[i].height>>],
    [i \in DOMAIN drawingCanvases |-> <<drawingCanvases[i].width, drawingCanvases[i].height>>]>>

\* C25: while more than one object is selected across the three kinds no
\* resize is started on an image, a text or a drawing canvas, and no step
\* changes the width or height of an object; a drag can still be started.
C25_NoResizeOfMultiSelection ==
  /\ [][(totalSelectedCount > 1 /\ totalSelectedCount' > 1 /\ nodeAction.type # "resize")
          => nodeAction'.type # "resize"]_vars
  /\ [][totalSelectedCount > 1 => Sizes' = Sizes]_vars

(***************************************************************************)
(* The trash target.                                                       *)
(***************************************************************************)
\* the drag began with a selection (handleImageDragStart has set the flag), the
\* node that is dragged is selected, and the last mousemove of this drag had
\* the pointer over (or outside) the rectangle of the trash target
ReleasedAt(isOver) ==
  /\ nodeAction.type = "drag"
  /\ isDraggingForDelete
  /\ \/ Includes(selectedImageIds, nodeAction.id)
     \/ Includes(selectedTextIds, nodeAction.id)
     \/ Includes(selectedDrawingCanvasIds, nodeAction.id)
  /\ applied = HitTest(isOver, nodeAction)
  /\ NodeMouseUp

\* C28: releasing a dragged selected object with the pointer over the trash
\* target removes every selected object of the three kinds and empties the
\* selections, as the Delete key does; releasing it outside removes nothing.
C28_TrashDeletesSelection ==
  /\ [][ReleasedAt(TRUE) =>
          LET d == CanvasKeyDown(Cur)
          IN /\ images' = d.images /\ textObjects' = d.textObjects
             /\ drawingCanvases' = d.drawingCanvases /\ layerOrder' = d.layerOrder
             /\ selectedImageIds' = <<>> /\ selectedTextIds' = <<>>
             /\ selectedDrawingCanvasIds' = <<>>]_vars
  /\ [][ReleasedAt(FALSE) => UNCHANGED docVars]_vars

(***************************************************************************)
(* Paint masks.                                                            *)
(***************************************************************************)
NoMaskOnUnselected ==
  \A i \in DOMAIN images : images[i].maskSrc # "" => Includes(selectedImageIds, images[i].id)

\* C29: a step that takes an image out of the selection (a background click, a
\* click on another object, a shift-click, a marquee selection) clears its
\* mask, so that after every step no unselected image carries a mask.
C29_MaskEphemeral ==
  /\ [][\A i \in DOMAIN images, j \in DOMAIN images' :
          (/\ images'[j].id = images[i].id
           /\ Includes(selectedImageIds, images[i].id)
           /\ ~Includes(selectedImageIds', images[i].id)) => images'[j].maskSrc = ""]_vars
  /\ [][NoMaskOnUnselected']_vars

\* C30: an edit call carries a mask exactly when the sequence takes the path of
\* a single selected item whose ratio matches the target and that item has a
\* mask; the calls of the two-step path (first edit and outpaint), of the entity
\* path and every other call carry none.
C30_MaskOnlyOnSingleStep ==
  \A i \in DOMAIN runs :
    LET c == runs[i].c
        items == editableItems(c)
        singleMatching == Len(items) = 1 /\ isMatchingAspectRatio(items[1], c.aspectRatio)
    IN \A k \in DOMAIN calls :
         IF calls[k].fn = "editImage"
         THEN calls[k].mask <=> (singleMatching /\ items[1].maskSrc # "")
         ELSE ~calls[k].mask

\* the edit call of the single-step path is in flight with the mask of the one selected image
C30_Witness ==
  /\ Len(runs) = 1
  /\ runs[1].pc = "editImage" /\ runs[1].mode = "single"
  /\ Len(runs[1].c.selectedImageIds) = 1 /\ runs[1].c.selectedDrawingCanvasIds = <<>>
  /\ calls[Len(calls)].fn = "editImage" /\ calls[Len(calls)].mask

(***************************************************************************)
(* The selection-order badge and the reference positions.                  *)
(***************************************************************************)
\* the badge of every item of the reference list is its position in the list
BadgesAreReferences ==
  LET items == editableItems(Closure("a"))
  IN \A n \in DOMAIN items : selectionOrderMap(Cur)[items[n].id] = n

\* C31: whenever a click or a key leaves more than one object selected, the
\* badge number of every selected image and drawing canvas equals the index N
\* of the "Reference N" position the item gets in the reference list of a
\* generation started in that state, whatever else is selected, texts
\* included.
C31_BadgeIsReference ==
  [][totalSelectedCount' > 1 => BadgesAreReferences']_vars

(***************************************************************************)
(* The state an attempt reads.                                             *)
(***************************************************************************)
\* the first service call of an attempt that reads the state c
FirstCallOf(c) ==
  IF Len(editableItems(c)) > 0 THEN "editImage"
  ELSE IF Len(characterImages(c)) > 0 /\ Len(backgroundImages(c)) > 0 THEN "parsePromptForEntities"
  ELSE "generateImage"

\* C32: each attempt of the retry loop chooses its path from the selection
\* and the document as they are when the attempt starts: the first call of
\* an attempt that follows a backoff wait is the call of the path of the
\* selection and document of that moment, and carries the references with
\* data of that selection.
C32_FreshEachAttempt ==
  [][(AttemptStart /\ Len(calls') > Len(calls)) =>
       LET call == Last(calls')
           now == Closure(call.prompt)
       IN call.attempt > 1 =>
          /\ call.fn = FirstCallOf(now)
          /\ call.refs = Ids(validReferenceData(editableItems(now)))]_vars

(***************************************************************************)
(* Entity extraction and the paths that follow it.                         *)
(***************************************************************************)
\* the first image of a classification that has a name; <<>> when there is none
NamedImage(c, classification, name) ==
  FindByName(SelectSeq(c.images, LAMBDA img : img.classification = classification), name)

\* C33: entity extraction returns for each of character and background a
\* name of the list it was given or null and never raises (the attempt goes on
\* with a call, no error is caught); when it does not resolve both names the
\* attempt calls the text-to-image generation and makes no edit call; when it
\* resolves both, the attempt makes the edit call with exactly the character
\* image and the background image of those names as references, and then only
\* the outpaint call on the padded result.
C33_EntityExtraction ==
  /\ [](applied.fn = "parsePromptForEntities" =>
          /\ applied.result.characterName \in Range(applied.characterNames) \cup {""}
          /\ applied.result.backgroundName \in Range(applied.backgroundNames) \cup {""})
  /\ [][ParseSettles =>
          LET c == runs[1].c
              result == applied'.result
              call == Last(calls')
              character == NamedImage(c, "character", result.characterName)
              background == NamedImage(c, "background", result.backgroundName)
          IN /\ Len(runs) = 1 /\ Len(runs') = 1
             /\ editableItems(c) = <<>>
             /\ runs'[1].attempt = runs[1].attempt
             /\ isLoading' /\ errorMessage' = "" /\ loadingMessage' = loadingMessage
             /\ calls' = Append(calls, call)
             /\ call.attempt = runs[1].attempt
             /\ call.prompt = c.prompt
             /\ IF result.characterName # "" /\ result.backgroundName # ""
                THEN /\ call.fn = "editImage"
                     /\ Len(character) = 1 /\ Len(background) = 1
                     /\ call.refs = <<character[1].id, background[1].id>>
                     /\ runs'[1].mode = "entity"
                ELSE /\ call.fn = "generateImage"
                     /\ call.refs = <<>>
                     /\ runs'[1].pc = "generateImage"]_vars
  /\ [](\A attempt \in 1..maxRetries :
          LET mine == CallsOfAttempt(calls, attempt)
          IN (Len(mine) > 1 /\ mine[1].fn = "parsePromptForEntities") =>
               \/ Len(mine) = 2 /\ mine[2].fn = "generateImage"
               \/ /\ mine[2].fn = "editImage"
                  /\ Len(mine) <= 3
                  /\ Len(mine) = 3 =>
                       /\ mine[3].fn = "editImage"
                       /\ mine[3].prompt = outpaintingPrompt
                       /\ mine[3].refs = <<MkId("padded", attempt)>>)

\* the first attempt fell back to the generation, which failed; the second
\* resolved 'hero' and 'city' and its edit and outpaint calls succeeded
C33_Witness ==
  /\ ~isLoading
  /\ errorMessage = ""
  /\ applied.fn = "parsePromptForEntities"
  /\ applied.result = Entities("hero", "city")
  /\ Len(calls) = 5
  /\ [k \in 1..5 |-> calls[k].fn]
       = <<"parsePromptForEntities", "generateImage", "parsePromptForEntities", "editImage", "editImage">>
  /\ calls[4].refs = <<Hero.id, City.id>>
  /\ calls[5].prompt = outpaintingPrompt
  /\ Len(pendingLoads) = 1

(***************************************************************************)
(* Client and payload failures.                                            *)
(***************************************************************************)
\* the awaited call of the run rejects with a failure whose cleaned message
\* has a keyword of the client class and none of the safety class
ClientFailureCaught ==
  /\ CallRejects
  /\ ClassOf[applied.error].client
  /\ ~ClassOf[applied.error].safety

\* C34: a failure classified as client or payload error ends the sequence at
\* whatever attempt it is caught, the first and the second included: no
\* attempt and no wait follows, the payload-guidance message is the error
\* message and isLoading is false, also when the failure matches the overload
\* or the quota class as well; a caught failure is followed by a wait only if
\* it matches neither the safety nor the client class.
C34_ClientErrorTerminal ==
  /\ [][ClientFailureCaught =>
          /\ runs[1].attempt \in 1..maxRetries
          /\ runs' = <<>>
          /\ calls' = calls
          /\ errorMessage' = ClientMessage
          /\ ~isLoading'
          /\ loadingMessage' = ""]_vars
  /\ [][(CallRejects /\ Len(runs') = 1) =>
          /\ runs'[1].pc = "backoff"
          /\ ~ClassOf[applied.error].safety
          /\ ~ClassOf[applied.error].client]_vars

\* a failure that names the quota and the payload has ended the sequence with
\* the payload guidance
C34_Witness ==
  /\ Caught
  /\ applied.error.hasJson /\ applied.error.code = 429
  /\ ClassOf[applied.error].is429 /\ ClassOf[applied.error].client
  /\ runs = <<>>
  /\ errorMessage = ClientMessage
  /\ ~isLoading

(***************************************************************************)
(* The long poll of a video operation.                                     *)
(***************************************************************************)
\* the failure reports an overload: status code 503 or status UNAVAILABLE
TransientOverload(error) ==
  Carries503(error) \/ (error.hasJson /\ error.status = "UNAVAILABLE")

\* the status requests of a polling interval that the log holds
RequestsOf(log, interval) == SelectSeq(log, LAMBDA request : request.interval = interval)

\* the status request of the running interval settles with a failure
PollFails ==
  /\ VideoPollSettles
  /\ Last(applied'.requests).response.kind = "throws"

\* C35: within one polling interval a status request that fails with a
\* transient overload error is retried after the short backoff if it is the
\* first or the second request of the interval, so at most twice; the third
\* consecutive failure is fatal and a failure that is not transient is fatal at
\* once; every interval starts with the counter at zero, whatever failed in
\* the intervals before; the loop is left only by a status request that
\* reports the operation done or by a fatal failure.
C35_PollRetries ==
  /\ [](applied.fn = "generateVideo" =>
          \A interval \in 1..applied.interval :
            LET mine == RequestsOf(applied.requests, interval)
            IN /\ Len(mine) <= maxPollRetries
               /\ \A k \in 1..(Len(mine) - 1) :
                    /\ mine[k].response.kind = "throws"
                    /\ TransientOverload(mine[k].response.error))
  /\ [][PollFails =>
          LET failed == Len(RequestsOf(applied'.requests, applied.interval))
              error == Last(applied'.requests).response.error
          IN IF TransientOverload(error) /\ failed < maxPollRetries
             THEN applied'.pc = "backoff"
             ELSE applied'.pc = "failed" /\ applied'.error = error]_vars
  /\ [][VideoPollBackoffElapsed =>
          /\ applied'.pc = "poll"
          /\ applied'.interval = applied.interval]_vars
  /\ [][VideoPollTimer =>
          /\ applied'.pollRetryCount = 0
          /\ RequestsOf(applied.requests, applied'.interval) = <<>>]_vars
  /\ [][(applied.fn = "generateVideo" /\ applied.pc \notin {"done", "failed"}
           /\ applied'.pc \in {"done", "failed"}) =>
          /\ VideoPollSettles
          /\ LET last == Last(applied'.requests).response
             IN IF applied'.pc = "done" THEN last.kind = "operation" /\ last.done
                ELSE last.kind = "throws"]_vars

\* two overload failures and a pending operation in the first interval, then
\* two overload failures again in the second, whose third request reports done
C35_Witness ==
  /\ applied.fn = "generateVideo"
  /\ applied.pc = "done"
  /\ applied.interval = 2
  /\ Len(applied.requests) = 6
  /\ \A k \in {1, 2, 4, 5} : TransientOverload(applied.requests[k].response.error)
                               /\ applied.requests[k].response.kind = "throws"
  /\ applied.requests[3].response.kind = "operation" /\ ~applied.requests[3].response.done
  /\ applied.requests[6].response.done

(***************************************************************************)
(* The payloads of the first edit call.                                    *)
(***************************************************************************)
\* the first edit call of the first attempt on a selection has been made
FirstEditCalled ==
  /\ Started
  /\ SelectedOf(runs[1].c) # {}
  /\ calls # <<>>
  /\ calls[1].fn = "editImage"

\* the path is the one of the payloads sent: single-step for one payload
\* whose item is within 0.01 of the target ratio, two-step otherwise
PathOfPayloads ==
  LET c == runs[1].c
      sent == {o \in SelectedOf(c) : Includes(calls[1].refs, o[1])}
  IN runs[1].mode =
       IF /\ Len(calls[1].refs) = 1
          /\ \A o \in sent : Within100th(o[3], o[4], RatioW(c.aspectRatio), RatioH(c.aspectRatio))
       THEN "single" ELSE "two"

\* C36: the first edit call of an attempt carries one reference payload for
\* every selected image and drawing canvas, a canvas that was never painted
\* included, each at its Reference position; the path of the attempt is the one
\* of the number of payloads sent; no edit call has an empty reference list.
C36_PayloadPerSelectedItem ==
  /\ \A k \in DOMAIN calls : calls[k].fn = "editImage" => calls[k].refs # <<>>
  /\ FirstEditCalled =>
       LET c == runs[1].c
       IN /\ Len(calls[1].refs) = Cardinality(SelectedOf(c))
          /\ calls[1].refs = Ids(editableItems(c))
          /\ PathOfPayloads

(***************************************************************************)
(* The status fields of the orchestrator.                                  *)
(***************************************************************************)
\* a submit is accepted: a sequence starts
SubmitStarts == Len(runs') = Len(runs) + 1

\* C37: in every reachable state a retry status message is set only while
\* isLoading is true and an error message only while isLoading is false, and
\* a sequence is running exactly while isLoading is true; a submit that is
\* accepted leaves the error message, the detailed error and the debug log
\* empty, and they are still empty when the first call of the sequence is
\* made.
C37_StatusConsistent ==
  /\ [](/\ loadingMessage # "" => isLoading
        /\ errorMessage # "" => ~isLoading
        /\ isLoading <=> runs # <<>>)
  /\ [][SubmitStarts =>
          /\ isLoading' /\ loadingMessage' = ""
          /\ errorMessage' = "" /\ detailedError' = "" /\ debugImages' = <<>>
          /\ calls' = <<>>]_vars
  /\ [][(calls = <<>> /\ calls' # <<>>) =>
          /\ errorMessage = "" /\ detailedError = "" /\ debugImages = <<>>
          /\ errorMessage' = "" /\ detailedError' = ""]_vars

\* the second sequence of the session is waiting for its retry: the retry
\* message and the details of the failed attempt are set, no error message is
\* shown
C37_Witness ==
  /\ clock = 2
  /\ isLoading
  /\ Len(runs) = 1 /\ runs[1].pc = "backoff"
  /\ loadingMessage # ""
  /\ detailedError # ""
  /\ errorMessage = ""

(***************************************************************************)
(* The Merge action of the context menu.                                   *)
(***************************************************************************)
\* C38: the Merge action, invoked while more than one object is selected,
\* merges what is selected then: the call does not return early, it captures
\* the objects selected at the click, and when the capture resolves exactly
\* one 'result' image at their bounding box is handed to the image loader and
\* every selected image, text and drawing canvas is removed from the document
\* and from the layer order; the image becomes the only selection when it has
\* loaded.
C38_MergeReplacesSelection ==
  /\ [][ContextActionMerge =>
          /\ applied'.pc = "html2canvas"
          /\ allSelectedObjects(applied'.c) = allSelectedObjects(RenderClosure)]_vars
  /\ [][(MergeSettles /\ applied'.pc = "merged") =>
          LET box == captureBox(allSelectedObjects(applied.c))
              merged == Last(pendingLoads')
          IN /\ Len(pendingLoads') = Len(pendingLoads) + 1
             /\ merged.classification = "result"
             /\ <<merged.x, merged.y, merged.width, merged.height>>
                  = <<box.x, box.y, box.width, box.height>>
             /\ \A id \in SelectedIds : id \notin LiveIds' /\ ~Includes(layerOrder', id)
             /\ selectedImageIds' = <<>> /\ selectedTextIds' = <<>>
             /\ selectedDrawingCanvasIds' = <<>>]_vars

(***************************************************************************)
(* Clicks on nodes and the selection.                                      *)
(***************************************************************************)
\* a press on the node of id with the given shift key
PressOn(id, shiftKey) ==
  \/ \E i \in DOMAIN images : images[i].id = id /\ ImageNodePress(i, shiftKey)
  \/ \E i \in DOMAIN textObjects : textObjects[i].id = id /\ TextNodePress(i, shiftKey)
  \/ \E i \in DOMAIN drawingCanvases :
        drawingCanvases[i].id = id /\ DrawingCanvasNodePress(i, shiftKey)

Selected(id) == id \in SelectedIds

SoleSelection(id) ==
  selectedImageIds \o selectedTextIds \o selectedDrawingCanvasIds = <<id>>

\* the clicked object becomes the only selected object and the last of the layer order
ClickSelectsAlone(id) ==
  (PressOn(id, FALSE) /\ ~Selected(id)) => SoleSelection(id)' /\ Last(layerOrder') = id

\* the selection sets stay as they are
ClickKeepsSelection(id) ==
  (PressOn(id, FALSE) /\ Selected(id)) => UNCHANGED selVars

\* the membership of the clicked object flips and every other selected id stays
ShiftClickToggles(id) ==
  (PressOn(id, TRUE) /\ activeTool = "select") =>
     /\ Selected(id)' = ~Selected(id)
     /\ \A other \in LiveIds \ {id} : Selected(other)' = Selected(other)

\* C39 as stated: a click without shift on an unselected object selects it
\* alone and brings it to the front, a click without shift on a selected
\* object leaves the selection sets unchanged whatever the tool, and a
\* shift-click with the select tool toggles the clicked object only.
C39_ClickSelection ==
  [][\A id \in LiveIds :
       ClickSelectsAlone(id) /\ ClickKeepsSelection(id) /\ ShiftClickToggles(id)]_vars

\* C39, amended: a click without shift on a selected object leaves the
\* selection sets unchanged when the tool is select, pen or eraser; with the
\* pan or the text tool every click on an object, with or without shift,
\* makes it the only selected object.  In every case the clicked object is
\* the last of the layer order.
C39_ClickSelectionByTool ==
  [][\A id \in LiveIds :
       /\ ClickSelectsAlone(id)
       /\ activeTool \in {"select", "pen", "eraser"} => ClickKeepsSelection(id)
       /\ ShiftClickToggles(id)
       /\ \A shiftKey \in BOOLEAN :
            PressOn(id, shiftKey) =>
              /\ Last(layerOrder') = id
              /\ activeTool \in {"pan", "text"} => SoleSelection(id)']_vars

\* a click with the pan tool on one of two selected objects has made it the
\* only selection
C39_Witness ==
  /\ nodeAction.type = "drag"
  /\ activeTool = "pan"
  /\ SoleSelection(nodeAction.id)
  /\ Last(layerOrder) = nodeAction.id

====
